---- MODULE Spec2Model ----
(***************************************************************************)
(* Job lifecycle and progress engine of song_shake.                        *)
(*                                                                         *)
(* The model covers the job routes (create_job, retry_failed, cancel_job), *)
(* the job storage port (check_and_create_job, update_job, get_job), the   *)
(* background workers (run_enrichment_job, run_retry_job) and the track    *)
(* loop of process_playlist as far as it drives progress, cancellation     *)
(* and the terminal status of a job.                                       *)
(*                                                                         *)
(* Request handlers and workers are threads; every action below is one     *)
(* step that is atomic in the code (a storage call under _db_lock, a       *)
(* dictionary access under _live_state_lock, or thread-local work).        *)
(***************************************************************************)
EXTENDS Integers, Sequences, FiniteSets, TLC

\* ------------------------------------------------------------------------
\* Bounds of the model
\* ------------------------------------------------------------------------

\* number of job records that may be created in one behaviour
MaxJobs == 2

\* longest track list a playlist fetch returns
MaxTracks == 2

\* number of request handler threads that may be in flight at once
MaxReqs == 2

\* longest track list in the specification of admission (Spec)
ShortList == 1

\* longest track list in the specification of the durability flush (SpecFlush)
LongList == 6

JobIds == 1..MaxJobs
Reqs == 1..MaxReqs

Owners == {"alice"}
Playlists == {"PL1"}

\* retry_failed uses the synthetic playlist id f"retry_{owner}"
RetryPlaylist(owner) == "retry_" \o owner

\* ------------------------------------------------------------------------
\* Job domain model
\* ------------------------------------------------------------------------

PENDING == "pending"
RUNNING == "running"
COMPLETED == "completed"
ERROR == "error"
CANCELLED == "cancelled"

JobStatus == {PENDING, RUNNING, COMPLETED, ERROR, CANCELLED}

\* mutation: ERROR is not taken for a terminal status
TERMINAL_STATUSES_NoError == {COMPLETED, CANCELLED}

TERMINAL_STATUSES == {COMPLETED, ERROR, CANCELLED}

ENRICHMENT == "enrichment"
RETRY == "retry"

\* job-level error entry {track_title, track_video_id, message}; a track is
\* identified by its position in the track list, 0 stands for the empty
\* title/id of the entry that records a fatal exception
ErrorEntry(track, message) == [track |-> track, message |-> message]

VARIABLES
    backend,          \* STORAGE_BACKEND of the process: "tinydb" or "firestore"
    jobs,             \* the persisted jobs table: sequence of job records, id = index
    cancel_events,    \* keys of logic._cancel_events
    event_set,        \* job ids whose threading.Event has been set
    job_live_state,   \* logic._job_live_state: job id -> snapshot, or NoLive
    worker,           \* per job: the background task and its local variables
    reqs,             \* per handler thread: the request in flight and its locals
    cancelBegun,      \* history: tracks begun when cancel_job set the signal, or -1
    stream,           \* a GET /jobs/{id}/stream connection: its position and locals
    songs,            \* the global catalog: video id -> TrackRecord, or NoTrack
    user_songs,       \* the ownership links: pairs <<owner, video id>>
    downloaded,       \* history: video ids passed to audio_downloader.download
    enriched,         \* history: video ids whose audio went to audio_enricher.enrich
    pl,               \* a run of process_playlist or retry_failed_tracks: its locals
    history,          \* the enrichment history record of the playlist and owner of pl
    tables,           \* the rows of the songs and user_songs tables (collections)
    saves,            \* the save_track calls in flight, and those that returned
    ai_usage,         \* the persisted all-time usage record of the owner
    usage_task,       \* per task that touches ai_usage: its position and locals
    ai_usage_live,    \* logic._ai_usage_live[owner] of one instance, or NoLiveUsage
    thread,           \* per thread of the lock model: its script and position in it
    access,           \* a request by job id or for the playlist list, and its answer
    runs              \* two runs of process_playlist over one playlist: their locals

\* the track catalog and a pipeline run over it
catalog_vars == <<songs, user_songs, downloaded, enriched, pl, history,
                  tables, saves>>

\* the usage accounting
usage_vars == <<ai_usage, usage_task, ai_usage_live>>

\* the job controller, the workers and the request handlers
job_vars == <<jobs, cancel_events, event_set, job_live_state, worker, reqs,
              cancelBegun, stream>>

\* the threads seen through their locks, the requests of two owners and
\* the runs that race on the catalog
concurrency_vars == <<thread, access, runs>>

vars == <<backend, jobs, cancel_events, event_set, job_live_state, worker,
          reqs, cancelBegun, stream, catalog_vars, usage_vars,
          concurrency_vars>>

NoLive == [status |-> "absent"]

\* ------------------------------------------------------------------------
\* Track catalog (songs/storage.py, FirestoreSongsAdapter)
\* ------------------------------------------------------------------------

\* number of distinct video ids a catalog or a playlist holds
MaxVideos == 2

\* video ids of catalog tracks; 0 stands for a missing videoId
VideoIds == 1..MaxVideos

\* video ids the alternate search may return
AltIds == {MaxVideos + 1, MaxVideos + 2}

\* the owner of the runs, and another user of the shared catalog
CatalogOwners == {"alice", "bob"}

\* titles: the stored title of every track is "Song"; get_song may return it,
\* return it in another case, return another title, or return none
Titles == {"Song", "SONG", "Other", ""}

\* str.strip().lower() on the titles of the model
Lower(t) ==
    CASE t = "Song" -> "song"
      [] t = "SONG" -> "song"
      [] t = "Other" -> "other"
      [] OTHER -> t

\* a TrackRecord of the songs table: status, the enrichment fields (genres,
\* moods, instruments, bpm) as the tag of the enrichment that produced them,
\* the title, the error message and playableVideoId (0: the key is not there)
TrackRecord(status, fields, title, error_message, playable) ==
    [status |-> status, fields |-> fields, title |-> title,
     error_message |-> error_message, playable |-> playable]

NoTrack == TrackRecord("absent", "none", "", "", 0)

\* _build_track_data lines 218-223: the status of the record
TrackStatus(is_music, error) ==
    IF ~is_music THEN "non-music"
    ELSE IF error # "" THEN "error"
    ELSE "success"

\* _build_track_data: the track_data of one track; the enrichment fields are
\* the metadata's, and playableVideoId is a key only if one was given
build_track_data(title, fields, error, is_music, playable_video_id) ==
    TrackRecord(TrackStatus(is_music, error), fields, title, error,
                playable_video_id)

\* save_track lines 58-59: upsert of the record by videoId; the keys of
\* track_data replace the stored ones and every other stored key stays
UpsertTrack(table, video_id, track_data) ==
    [table EXCEPT ![video_id] =
        [track_data EXCEPT !.playable =
            IF track_data.playable # 0 THEN track_data.playable
            ELSE table[video_id].playable]]

\* save_track lines 60-65: the link of the owner to the videoId
LinkOwner(links, owner, video_id) == links \cup {<<owner, video_id>>}

\* get_failed_tracks: the error-status tracks linked to the owner
get_failed_tracks(table, links, owner) ==
    {v \in VideoIds : <<owner, v>> \in links /\ table[v].status = "error"}


\* ------------------------------------------------------------------------
\* Job storage port (jobs/storage.py, FirestoreJobsAdapter)
\* ------------------------------------------------------------------------

\* the record check_and_create_job inserts
NewJobRecord(job_type, playlist_id, owner) ==
    [type |-> job_type,
     playlist_id |-> playlist_id,
     owner |-> owner,
     status |-> PENDING,
     total |-> 0,
     current |-> 0,
     message |-> "Initializing",
     errors |-> <<>>]

\* mutation of the query: a PENDING job no longer counts as active
ExistingActive_RunningOnly(table, playlist_id, owner) ==
    {j \in 1..Len(table) :
        /\ table[j].playlist_id = playlist_id
        /\ table[j].status = RUNNING
        /\ table[j].owner = owner}

\* mutation of the query: a RUNNING job no longer counts as active
ExistingActive_PendingOnly(table, playlist_id, owner) ==
    {j \in 1..Len(table) :
        /\ table[j].playlist_id = playlist_id
        /\ table[j].status = PENDING
        /\ table[j].owner = owner}

\* the query of check_and_create_job: active jobs of (playlist_id, owner)
ExistingActive(table, playlist_id, owner) ==
    {j \in 1..Len(table) :
        /\ table[j].playlist_id = playlist_id
        /\ (table[j].status = PENDING \/ table[j].status = RUNNING)
        /\ table[j].owner = owner}

\* mutation of update_job: the document is set, not updated; a field the
\* caller does not pass falls back to the value of a fresh record
update_job_Set(table, job_id, fields) ==
    [j \in 1..Len(table) |->
        IF j = job_id
        THEN [k \in DOMAIN table[j] |->
                 IF k \in DOMAIN fields
                 THEN fields[k]
                 ELSE NewJobRecord(table[j].type, table[j].playlist_id,
                                   table[j].owner)[k]]
        ELSE table[j]]

\* update_job: partial update of the record with that id; no match, no change
update_job(table, job_id, fields) ==
    [j \in 1..Len(table) |->
        IF j = job_id
        THEN [k \in DOMAIN table[j] |->
                 IF k \in DOMAIN fields THEN fields[k] ELSE table[j][k]]
        ELSE table[j]]

\* get_job: the record, or None (modelled as the id 0 being absent)
JobExists(table, job_id) == job_id \in 1..Len(table)

\* ------------------------------------------------------------------------
\* Threads
\* ------------------------------------------------------------------------

NoWorker ==
    [pc |-> "none", type |-> "none", i |-> 0, total |-> 0, job_errors |-> <<>>,
     current |-> 0, message |-> "", ret |-> "", runner_exit |-> "none",
     final_status |-> "", final_message |-> ""]

\* at_call is history: the persisted status of the job when cancel_job was
\* called ("absent" for an unknown id), "" for the other requests
IdleReq ==
    [pc |-> "idle", kind |-> "none", playlist_id |-> "", owner |-> "",
     job |-> 0, result |-> "", at_call |-> ""]

\* the step of a pipeline run that was taken last (history): the track, the
\* branch the iteration took, and what the ports returned in it
NoStep ==
    [video_id |-> 0, path |-> "none", is_music |-> TRUE, playable |-> TRUE,
     fetched_title |-> "", results |-> <<>>, hit |-> 0]

\* video_ids of retry_failed_tracks: None, or a list of ids (here its set)
NoVideoIds == [none |-> TRUE, ids |-> {}]

\* the locals of a run of process_playlist or retry_failed_tracks; before and
\* links_before are history: the catalog when the run started; n_results is
\* len(results) of process_playlist
IdleRun ==
    [pc |-> "idle", kind |-> "none", owner |-> "", wipe |-> FALSE,
     tracks |-> <<>>, i |-> 0, job_errors |-> <<>>, runner_exit |-> "none",
     video_ids |-> NoVideoIds, before |-> [v \in VideoIds |-> NoTrack],
     links_before |-> {}, last |-> NoStep, n_results |-> 0]

\* the threads that call save_track
SaveThreads == 1..MaxReqs

\* empty songs and user_songs tables
NoRows == [songs |-> <<>>, user_songs |-> <<>>]

\* a thread outside save_track
IdleSave == [pc |-> "idle", owner |-> "", videoId |-> "", data |-> ""]

\* no call of save_track so far; done is history: the (owner, videoId)
\* pairs of the calls that returned, n the number of calls begun
NoSaves == [call |-> [t \in SaveThreads |-> IdleSave], done |-> {}, n |-> 0]

\* the history table holds no record of the (playlist, owner) pair; lost is
\* history: the last save_enrichment_history raised
NoHistory == [exists |-> FALSE, status |-> "", item_count |-> 0,
              lost |-> FALSE]

\* no stream connection; last is the status of the snapshot sent last
NoStream == [pc |-> "idle", job |-> 0, last |-> ""]

\* number of threads of the lock model
MaxLockThreads == 3

LockThreads == 1..MaxLockThreads

\* a thread of the pool that runs nothing: holds_live is the ownership of
\* logic._live_state_lock, in_port the storage module whose function it is in
IdleThread == [script |-> "none", pc |-> 0, holds_live |-> FALSE, in_port |-> "none"]

\* no request by job id or for the playlist list is being answered
NoAccess == [op |-> "none", caller |-> "none", job |-> 0, playlist |-> "none",
             answer |-> "none", is_running |-> FALSE]

\* the two runs of process_playlist of the dedup race
RunIds == 1..2

\* a run that has not started
IdleRace == [pc |-> "idle", owner |-> "none", video_id |-> 0, enriched |-> 0]

\* no thread in the lock model, no request by id, no racing run
ConcurrencyInit ==
    /\ thread = [t \in LockThreads |-> IdleThread]
    /\ access = NoAccess
    /\ runs = [r \in RunIds |-> IdleRace]

\* no job, no request, no worker
JobsInit ==
    /\ jobs = <<>>
    /\ cancel_events = {}
    /\ event_set = {}
    /\ job_live_state = [j \in JobIds |-> NoLive]
    /\ worker = [j \in JobIds |-> NoWorker]
    /\ reqs = [r \in Reqs |-> IdleReq]
    /\ cancelBegun = [j \in JobIds |-> -1]
    /\ stream = NoStream

\* an empty catalog and no pipeline run
CatalogInit ==
    /\ songs = [v \in VideoIds |-> NoTrack]
    /\ user_songs = {}
    /\ downloaded = {}
    /\ enriched = {}
    /\ pl = IdleRun
    /\ history = NoHistory
    /\ tables = NoRows
    /\ saves = NoSaves

\* ------------------------------------------------------------------------
\* AI usage record of the owner (jobs/storage.py, FirestoreJobsAdapter)
\* ------------------------------------------------------------------------

\* tasks that touch the usage record of one owner: job workers and readers
MaxTasks == 3

UsageTasks == 1..MaxTasks

\* the largest cumulative token count a job reports, in units of 50 tokens
MaxTokens == 6

\* the progress ticks of one job that report usage
MaxTicks == 2

\* the cumulative token counts a tick reports, in units of 50 tokens
TickValues == {1, 2, 3, MaxTokens}

\* the ai_usage document of the owner: whether it is there, and its
\* input_tokens counter; prior is history: the counter before any task ran
UsageRecord(exists, tokens, prior) ==
    [exists |-> exists, tokens |-> tokens, prior |-> prior]

\* the locals of a task: doc_exists is what its get() of the document saw,
\* prev_tokens is the cumulative count of its last tick, ticks is history:
\* the cumulative counts it reported
\* _ai_usage_live has no entry for the owner (logic.py line 30: the map
\* starts empty)
NoLiveUsage == [present |-> FALSE, input_tokens |-> 0]

\* delta is the delta of the tick in progress, baseline and updated are
\* what get_ai_usage and update_ai_usage returned to a worker; live and db
\* are what a round of the usage stream read, usage is what it chose
IdleTask ==
    [pc |-> "idle", kind |-> "none", doc_exists |-> FALSE, prev_tokens |-> 0,
     ticks |-> <<>>, delta |-> 0, baseline |-> 0, updated |-> 0,
     live |-> NoLiveUsage, db |-> 0, usage |-> 0]

\* no usage document and no task
UsageInit ==
    /\ ai_usage = UsageRecord(FALSE, 0, 0)
    /\ usage_task = [t \in UsageTasks |-> IdleTask]
    /\ ai_usage_live = NoLiveUsage

Init ==
    /\ backend \in {"tinydb", "firestore"}
    /\ JobsInit
    /\ ConcurrencyInit
    /\ CatalogInit
    /\ UsageInit

\* ------------------------------------------------------------------------
\* POST /jobs and POST /jobs/retry
\* ------------------------------------------------------------------------

\* create requests that may still insert a job record
Undecided ==
    {r \in Reqs : reqs[r].pc \in {"check_create", "txn_commit"}}

\* the bound on the jobs table: a create request is admitted to the model
\* only while a record it may insert still fits
RoomFor(cap) == Len(jobs) + Cardinality(Undecided) < cap

\* create_job up to the API key check: without a key the request is rejected
\* with 400 before the store is touched
CreateJobBegin(r, playlist_id, owner, has_key) ==
    /\ reqs[r].pc = "idle"
    /\ reqs' = [reqs EXCEPT ![r] =
          IF has_key
          THEN [IdleReq EXCEPT !.pc = "check_create", !.kind = "create",
                               !.playlist_id = playlist_id, !.owner = owner]
          ELSE [IdleReq EXCEPT !.pc = "done", !.kind = "create",
                               !.playlist_id = playlist_id, !.owner = owner,
                               !.result = "400"]]
    /\ UNCHANGED <<catalog_vars, usage_vars, backend, concurrency_vars, stream, jobs, cancel_events, event_set, job_live_state,
                   worker, cancelBegun>>

\* retry_failed up to the API key check; the pair is (retry_<owner>, owner)
RetryFailedBegin(r, owner, has_key) ==
    /\ reqs[r].pc = "idle"
    /\ reqs' = [reqs EXCEPT ![r] =
          IF has_key
          THEN [IdleReq EXCEPT !.pc = "check_create", !.kind = "retry",
                               !.playlist_id = RetryPlaylist(owner),
                               !.owner = owner]
          ELSE [IdleReq EXCEPT !.pc = "done", !.kind = "retry",
                               !.playlist_id = RetryPlaylist(owner),
                               !.owner = owner, !.result = "400"]]
    /\ UNCHANGED <<catalog_vars, usage_vars, backend, concurrency_vars, stream, jobs, cancel_events, event_set, job_live_state,
                   worker, cancelBegun>>

JobTypeOf(kind) == IF kind = "retry" THEN RETRY ELSE ENRICHMENT

\* after a successful insert create_job builds the playlist fetcher, while
\* retry_failed goes straight to add_task
AfterInsert(kind) == IF kind = "create" THEN "credentials" ELSE "schedule"

\* jobs/storage.py check_and_create_job: query and insert under _db_lock
check_and_create_job(r) ==
    /\ backend = "tinydb"
    /\ reqs[r].pc = "check_create"
    /\ IF ExistingActive(jobs, reqs[r].playlist_id, reqs[r].owner) # {}
       THEN /\ reqs' = [reqs EXCEPT ![r].pc = "done", ![r].result = "409"]
            /\ jobs' = jobs
       ELSE /\ jobs' = Append(jobs, NewJobRecord(JobTypeOf(reqs[r].kind),
                                   reqs[r].playlist_id, reqs[r].owner))
            /\ reqs' = [reqs EXCEPT ![r].pc = AfterInsert(reqs[r].kind),
                                    ![r].job = Len(jobs) + 1]
    /\ UNCHANGED <<catalog_vars, usage_vars, backend, concurrency_vars, stream, cancel_events, event_set, job_live_state, worker,
                   cancelBegun>>

\* FirestoreJobsAdapter.check_and_create_job, the query inside the
\* transaction: an active job makes the transaction return None
TxnQuery(r) ==
    /\ backend = "firestore"
    /\ reqs[r].pc = "check_create"
    /\ IF ExistingActive(jobs, reqs[r].playlist_id, reqs[r].owner) # {}
       THEN reqs' = [reqs EXCEPT ![r].pc = "done", ![r].result = "409"]
       ELSE reqs' = [reqs EXCEPT ![r].pc = "txn_commit"]
    /\ UNCHANGED <<catalog_vars, usage_vars, backend, concurrency_vars, stream, jobs, cancel_events, event_set, job_live_state,
                   worker, cancelBegun>>

\* the commit of the transaction: it writes the record if the query result
\* still stands, and otherwise the @transactional wrapper runs the body again
TxnCommit(r) ==
    /\ backend = "firestore"
    /\ reqs[r].pc = "txn_commit"
    /\ IF ExistingActive(jobs, reqs[r].playlist_id, reqs[r].owner) # {}
       THEN /\ reqs' = [reqs EXCEPT ![r].pc = "check_create"]
            /\ jobs' = jobs
       ELSE /\ jobs' = Append(jobs, NewJobRecord(JobTypeOf(reqs[r].kind),
                                   reqs[r].playlist_id, reqs[r].owner))
            /\ reqs' = [reqs EXCEPT ![r].pc = AfterInsert(reqs[r].kind),
                                    ![r].job = Len(jobs) + 1]
    /\ UNCHANGED <<catalog_vars, usage_vars, backend, concurrency_vars, stream, cancel_events, event_set, job_live_state, worker,
                   cancelBegun>>

\* create_job lines 80-90: get_authenticated_ytmusic raises HTTPException(401)
\* when the owner has no Google tokens or they cannot be refreshed, and the
\* handler re-raises it; any other exception leaves playlist_fetcher = None
BuildPlaylistFetcher(r, credential) ==
    /\ reqs[r].pc = "credentials"
    /\ IF credential = "http_401"
       THEN reqs' = [reqs EXCEPT ![r].pc = "done", ![r].result = "401"]
       ELSE reqs' = [reqs EXCEPT ![r].pc = "schedule"]
    /\ UNCHANGED <<catalog_vars, usage_vars, backend, concurrency_vars, stream, jobs, cancel_events, event_set, job_live_state,
                   worker, cancelBegun>>

\* background_tasks.add_task(...) and return job: the task is queued to run
\* after the response has been sent
AddTask(r) ==
    /\ reqs[r].pc = "schedule"
    /\ worker' = [worker EXCEPT ![reqs[r].job] =
          [NoWorker EXCEPT !.pc = "scheduled",
                           !.type = JobTypeOf(reqs[r].kind)]]
    /\ reqs' = [reqs EXCEPT ![r].pc = "done", ![r].result = "200"]
    /\ UNCHANGED <<catalog_vars, usage_vars, backend, concurrency_vars, stream, jobs, cancel_events, event_set, job_live_state,
                   cancelBegun>>

\* the response has been delivered; the handler thread takes the next request
Respond(r) ==
    /\ reqs[r].pc = "done"
    /\ reqs' = [reqs EXCEPT ![r] = IdleReq]
    /\ UNCHANGED <<catalog_vars, usage_vars, backend, concurrency_vars, stream, jobs, cancel_events, event_set, job_live_state,
                   worker, cancelBegun>>

\* ------------------------------------------------------------------------
\* POST /jobs/{job_id}/cancel
\* ------------------------------------------------------------------------

\* tracks of job j whose loop iteration has passed the cancellation check
TracksBegun(j) ==
    worker[j].i +
        (IF \/ worker[j].pc = "process"
            \/ (worker[j].pc = "flush" /\ worker[j].ret = "process")
         THEN 1 ELSE 0)

\* the worker of job j is inside the track loop of process_playlist
InTrackLoop(j) == worker[j].pc \in {"check", "process", "flush"}

\* cancel_job line 322: logic.get_cancel_event(job_id) under _live_state_lock.
\* Job ids are fresh uuids, so a client names the id of a record that has
\* been inserted, or an id no job has (0)
GetCancelEvent(r, job_id) ==
    /\ reqs[r].pc = "idle"
    /\ job_id = 0 \/ JobExists(jobs, job_id)
    /\ reqs' = [reqs EXCEPT ![r] =
          [IdleReq EXCEPT !.kind = "cancel", !.job = job_id,
                          !.at_call = IF JobExists(jobs, job_id)
                                      THEN jobs[job_id].status ELSE "absent",
                          !.pc = IF job_id \in cancel_events
                                 THEN "event_set" ELSE "get_job"]]
    /\ UNCHANGED <<catalog_vars, usage_vars, backend, concurrency_vars, stream, jobs, cancel_events, event_set, job_live_state,
                   worker, cancelBegun>>

\* cancel_job lines 323-327: event.set(), "Cancellation requested"
SetCancelEvent(r) ==
    /\ reqs[r].pc = "event_set"
    /\ event_set' = event_set \cup {reqs[r].job}
    /\ reqs' = [reqs EXCEPT ![r].pc = "done", ![r].result = "200_requested"]
    /\ cancelBegun' =
          [cancelBegun EXCEPT ![reqs[r].job] =
              IF /\ reqs[r].job \notin event_set
                 /\ jobs[reqs[r].job].status = RUNNING
                 /\ InTrackLoop(reqs[r].job)
                 /\ TracksBegun(reqs[r].job) < worker[reqs[r].job].total
              THEN TracksBegun(reqs[r].job)
              ELSE @]
    /\ UNCHANGED <<catalog_vars, usage_vars, backend, concurrency_vars, stream, jobs, cancel_events, job_live_state, worker>>

\* cancel_job lines 330-335: no event in memory, look the job up in the store
CancelGetJob(r) ==
    /\ reqs[r].pc = "get_job"
    /\ reqs' = [reqs EXCEPT ![r] =
          IF ~JobExists(jobs, reqs[r].job)
          THEN [@ EXCEPT !.pc = "done", !.result = "404"]
          ELSE IF jobs[reqs[r].job].status \in TERMINAL_STATUSES
               THEN [@ EXCEPT !.pc = "done", !.result = "409"]
               ELSE [@ EXCEPT !.pc = "mark_orphaned"]]
    /\ UNCHANGED <<catalog_vars, usage_vars, backend, concurrency_vars, stream, jobs, cancel_events, event_set, job_live_state,
                   worker, cancelBegun>>

\* cancel_job lines 339-344: the job is taken for a zombie and marked failed
MarkOrphaned(r) ==
    /\ reqs[r].pc = "mark_orphaned"
    /\ jobs' = update_job(jobs, reqs[r].job,
                   [status |-> ERROR, message |-> "orphaned"])
    /\ reqs' = [reqs EXCEPT ![r].pc = "done", ![r].result = "200_orphaned"]
    /\ UNCHANGED <<catalog_vars, usage_vars, backend, concurrency_vars, stream, cancel_events, event_set, job_live_state, worker,
                   cancelBegun>>

\* ------------------------------------------------------------------------
\* Background workers: run_enrichment_job, run_retry_job
\* ------------------------------------------------------------------------

\* the snapshot _on_progress and the initialisation store in _job_live_state
LiveSnapshot(status, total, current, message, errors) ==
    [status |-> status, total |-> total, current |-> current,
     message |-> message, errors |-> errors]

\* mutation: the last tick is not persisted
ShouldPersist_NotLast(current, total) ==
    current = 0 \/ current % 5 = 0

\* mutation: no tick between the first and the last is persisted
ShouldPersist_NoFifth(current, total) == current = 0 \/ current = total

\* _on_progress line 186: persist on the first and last tick and every fifth
ShouldPersist(current, total) ==
    current = 0 \/ current = total \/ current % 5 = 0

\* mutation: the loop goes on to the next track without the cancellation check
AfterTrack_NoCheck(i, total) ==
    IF i + 1 < total THEN "process" ELSE "final_report"

\* the loop of process_playlist after track i: next track or the final report
AfterTrack(i, total) == IF i + 1 < total THEN "check" ELSE "final_report"

\* lines 83-85: the worker registers its cancellation event
RegisterCancelEvent(j) ==
    /\ worker[j].pc = "scheduled"
    /\ cancel_events' = cancel_events \cup {j}
    /\ worker' = [worker EXCEPT ![j].pc = "init_live"]
    /\ UNCHANGED <<catalog_vars, usage_vars, backend, concurrency_vars, stream, jobs, event_set, job_live_state, reqs,
                   cancelBegun>>

\* lines 94-103: the initial live snapshot
InitLiveState(j) ==
    /\ worker[j].pc = "init_live"
    /\ job_live_state' = [job_live_state EXCEPT ![j] =
          LiveSnapshot(RUNNING, 0, 0, "Initializing", <<>>)]
    /\ worker' = [worker EXCEPT ![j].pc = "mark_running"]
    /\ UNCHANGED <<catalog_vars, usage_vars, backend, concurrency_vars, stream, jobs, cancel_events, event_set, reqs, cancelBegun>>

\* line 203: job_store.update_job(job_id, {"status": RUNNING})
MarkRunning(j) ==
    /\ worker[j].pc = "mark_running"
    /\ jobs' = update_job(jobs, j, [status |-> RUNNING])
    /\ worker' = [worker EXCEPT ![j].pc = "run"]
    /\ UNCHANGED <<catalog_vars, usage_vars, backend, concurrency_vars, stream, cancel_events, event_set, job_live_state, reqs,
                   cancelBegun>>

\* _on_progress lines 126-161 for one tick: record the track's error, if any,
\* and replace the live snapshot; the tick is persisted next if line 186 says so
OnProgress(j, w, current, message, error, next) ==
    LET errs == IF error = "" THEN w.job_errors
                ELSE Append(w.job_errors, ErrorEntry(current + 1, error))
    IN /\ job_live_state' = [job_live_state EXCEPT ![j] =
              LiveSnapshot(RUNNING, w.total, current, message, errs)]
       /\ worker' = [worker EXCEPT ![j] =
              [w EXCEPT !.job_errors = errs,
                        !.current = current,
                        !.message = message,
                        !.pc = IF ShouldPersist(current, w.total)
                               THEN "flush" ELSE next,
                        !.ret = next]]

\* process_playlist lines 370-379: fetch the track list and report tick 0;
\* an empty list returns at once, an exception of the fetcher escapes
GetTracks(j, n, raises) ==
    /\ worker[j].pc = "run"
    /\ worker[j].type = ENRICHMENT
    /\ IF raises
       THEN /\ worker' = [worker EXCEPT ![j].pc = "finalize_live",
                                        ![j].runner_exit = "exception"]
            /\ UNCHANGED job_live_state
       ELSE IF n = 0
       THEN /\ worker' = [worker EXCEPT ![j].pc = "finalize_live",
                                        ![j].runner_exit = "returned"]
            /\ UNCHANGED job_live_state
       ELSE OnProgress(j, [worker[j] EXCEPT !.total = n, !.i = 0],
                       0, "Fetching tracks", "", "check")
    /\ UNCHANGED <<catalog_vars, usage_vars, backend, concurrency_vars, stream, jobs, cancel_events, event_set, reqs, cancelBegun>>

\* run_retry_job lines 356-363: the argument get_songs_storage() is a name
\* logic.py never imports, so the call raises NameError before
\* retry_failed_tracks runs
RunRetry(j) ==
    /\ worker[j].pc = "run"
    /\ worker[j].type = RETRY
    /\ worker' = [worker EXCEPT ![j].pc = "finalize_live",
                                ![j].runner_exit = "exception"]
    /\ UNCHANGED <<catalog_vars, usage_vars, backend, concurrency_vars, stream, jobs, cancel_events, event_set, job_live_state,
                   reqs, cancelBegun>>

\* mutation: the check never raises
cancel_check_Never(j) == FALSE

\* _cancel_check lines 117-120: CancelledError iff the event is set
cancel_check(j) == j \in event_set

\* mutation: the ticks of a track count the tracks that remain
TrackCurrent_Remaining(i, total) == total - i

\* process_playlist lines 399, 458, 493 and 512: _report(i, total, ...), the
\* current of both ticks of the track at index i
TrackCurrent(i, total) == i

\* process_playlist lines 384-399: the cancellation check before track i, the
\* skip of a track without videoId, and the "Processing" tick
CheckAndStartTrack(j, has_video_id) ==
    /\ worker[j].pc = "check"
    /\ IF cancel_check(j)
       THEN /\ worker' = [worker EXCEPT ![j].pc = "finalize_live",
                                        ![j].runner_exit = "cancelled"]
            /\ UNCHANGED job_live_state
       ELSE IF ~has_video_id
       THEN /\ worker' = [worker EXCEPT
                  ![j].pc = AfterTrack(worker[j].i, worker[j].total),
                  ![j].i = worker[j].i + 1]
            /\ UNCHANGED job_live_state
       ELSE OnProgress(j, worker[j],
                       TrackCurrent(worker[j].i, worker[j].total),
                       "track", "", "process")
    /\ UNCHANGED <<catalog_vars, usage_vars, backend, concurrency_vars, stream, jobs, cancel_events, event_set, reqs, cancelBegun>>

TrackOutcomes ==
    {"cached", "non_music", "success", "error_reported", "error_raised",
     "fatal"}

\* process_playlist lines 401-514 for track i: dedup, non-music, download and
\* enrich with its try/except, and the tick that reports the track; "fatal" is
\* an exception of a call outside the try (get_track_by_id, save_track,
\* get_song), which leaves the loop
ProcessTrack(j, outcome) ==
    /\ worker[j].pc = "process"
    /\ LET w == worker[j]
           next == AfterTrack(w.i, w.total)
           done == [w EXCEPT !.i = w.i + 1]
           cur == TrackCurrent(w.i, w.total)
       IN CASE outcome = "cached" ->
                 /\ worker' = [worker EXCEPT ![j] = [done EXCEPT !.pc = next]]
                 /\ UNCHANGED job_live_state
            [] outcome = "non_music" ->
                 OnProgress(j, done, cur, "track", "", next)
            [] outcome = "success" ->
                 OnProgress(j, done, cur, "track", "", next)
            [] outcome = "error_reported" ->
                 OnProgress(j, done, cur, "track", "track_error", next)
            [] outcome = "error_raised" ->
                 OnProgress(j, done, cur, "track", "track_error", next)
            [] outcome = "fatal" ->
                 /\ worker' = [worker EXCEPT ![j].pc = "finalize_live",
                                             ![j].runner_exit = "exception"]
                 /\ UNCHANGED job_live_state
    /\ UNCHANGED <<catalog_vars, usage_vars, backend, concurrency_vars, stream, jobs, cancel_events, event_set, reqs, cancelBegun>>

\* _on_progress lines 186-194: persist the tick
FlushProgress(j) ==
    /\ worker[j].pc = "flush"
    /\ jobs' = update_job(jobs, j,
          [status |-> RUNNING, total |-> worker[j].total,
           current |-> worker[j].current, message |-> worker[j].message,
           errors |-> worker[j].job_errors])
    /\ worker' = [worker EXCEPT ![j].pc = worker[j].ret]
    /\ UNCHANGED <<catalog_vars, usage_vars, backend, concurrency_vars, stream, cancel_events, event_set, job_live_state, reqs,
                   cancelBegun>>

\* process_playlist lines 516-534: the final tick, then the normal return
FinalReport(j) ==
    /\ worker[j].pc = "final_report"
    /\ OnProgress(j, [worker[j] EXCEPT !.runner_exit = "returned"],
                  worker[j].total, "Enrichment complete", "", "finalize_live")
    /\ UNCHANGED <<catalog_vars, usage_vars, backend, concurrency_vars, stream, jobs, cancel_events, event_set, reqs, cancelBegun>>

\* mutation: the CancelledError is caught by the generic handler
FinalStatus_CancelIsError(runner_exit) ==
    CASE runner_exit = "returned" -> COMPLETED
      [] runner_exit = "cancelled" -> ERROR
      [] runner_exit = "exception" -> ERROR

\* run_enrichment_job lines 215-227: the terminal status by the way the
\* runner was left
FinalStatus(runner_exit) ==
    CASE runner_exit = "returned" -> COMPLETED
      [] runner_exit = "cancelled" -> CANCELLED
      [] runner_exit = "exception" -> ERROR

FinalMessage(runner_exit, job_type) ==
    CASE runner_exit = "returned" ->
             IF job_type = RETRY THEN "Retry complete"
             ELSE "Enrichment complete"
      [] runner_exit = "cancelled" -> "Cancelled by user"
      [] runner_exit = "exception" -> "exception"

\* mutation: the entry of an escaped exception replaces the list
FinalErrors_Replace(runner_exit, job_errors) ==
    IF runner_exit = "exception"
    THEN <<ErrorEntry(0, "exception")>>
    ELSE job_errors

\* line 227: only an escaped exception adds an entry, with empty title and id
FinalErrors(runner_exit, job_errors) ==
    IF runner_exit = "exception"
    THEN Append(job_errors, ErrorEntry(0, "exception"))
    ELSE job_errors

\* lines 215-238: the except clauses and the final live snapshot
FinalizeLive(j) ==
    /\ worker[j].pc = "finalize_live"
    /\ LET w == worker[j]
           st == FinalStatus(w.runner_exit)
           msg == FinalMessage(w.runner_exit, w.type)
           errs == FinalErrors(w.runner_exit, w.job_errors)
       IN /\ job_live_state' = [job_live_state EXCEPT ![j] =
                 [@ EXCEPT !.status = st, !.message = msg, !.errors = errs]]
          /\ worker' = [worker EXCEPT ![j] =
                 [w EXCEPT !.pc = "finalize_db", !.final_status = st,
                           !.final_message = msg, !.job_errors = errs]]
    /\ UNCHANGED <<catalog_vars, usage_vars, backend, concurrency_vars, stream, jobs, cancel_events, event_set, reqs, cancelBegun>>

\* lines 240-245: the terminal update of the job record
FinalizeJob(j) ==
    /\ worker[j].pc = "finalize_db"
    /\ jobs' = update_job(jobs, j,
          [status |-> worker[j].final_status,
           message |-> worker[j].final_message,
           errors |-> worker[j].job_errors])
    /\ worker' = [worker EXCEPT ![j].pc = "cleanup"]
    /\ UNCHANGED <<catalog_vars, usage_vars, backend, concurrency_vars, stream, cancel_events, event_set, job_live_state, reqs,
                   cancelBegun>>

\* lines 251-252: _cancel_events.pop(job_id, None)
PopCancelEvent(j) ==
    /\ worker[j].pc = "cleanup"
    /\ cancel_events' = cancel_events \ {j}
    /\ worker' = [worker EXCEPT ![j] =
          [NoWorker EXCEPT !.pc = "done", !.type = worker[j].type]]
    /\ UNCHANGED <<catalog_vars, usage_vars, backend, concurrency_vars, stream, jobs, event_set, job_live_state, reqs, cancelBegun>>

\* ------------------------------------------------------------------------
\* Specifications
\* ------------------------------------------------------------------------

Credentials == {"ok", "http_401", "other_exception"}

\* the steps of the handlers of POST /jobs and POST /jobs/retry
CreateSteps(r) ==
    \/ check_and_create_job(r)
    \/ TxnQuery(r)
    \/ TxnCommit(r)
    \/ \E c \in Credentials : BuildPlaylistFetcher(r, c)
    \/ AddTask(r)

\* the steps of the handler of POST /jobs/{job_id}/cancel
CancelSteps(r) ==
    \/ \E j \in {0} \cup JobIds : GetCancelEvent(r, j)
    \/ SetCancelEvent(r)
    \/ CancelGetJob(r)
    \/ MarkOrphaned(r)

\* the steps of a worker outside and inside the track loop
WorkerSteps(j) ==
    \/ RegisterCancelEvent(j)
    \/ InitLiveState(j)
    \/ MarkRunning(j)
    \/ RunRetry(j)
    \/ \E v \in BOOLEAN : CheckAndStartTrack(j, v)
    \/ \E o \in TrackOutcomes : ProcessTrack(j, o)
    \/ FlushProgress(j)
    \/ FinalReport(j)
    \/ FinalizeLive(j)
    \/ FinalizeJob(j)
    \/ PopCancelEvent(j)

\* Spec: admission and lifecycle of up to MaxJobs jobs. Requests are served
\* by one handler thread, concurrently with the workers; playlists hold at
\* most ShortList tracks.
Next ==
    \/ \E p \in Playlists, o \in Owners, k \in BOOLEAN :
           RoomFor(MaxJobs) /\ CreateJobBegin(1, p, o, k)
    \/ \E o \in Owners, k \in BOOLEAN :
           RoomFor(MaxJobs) /\ RetryFailedBegin(1, o, k)
    \/ CreateSteps(1)
    \/ CancelSteps(1)
    \/ Respond(1)
    \/ \E j \in JobIds, n \in 0..ShortList, x \in BOOLEAN : GetTracks(j, n, x)
    \/ \E j \in JobIds : WorkerSteps(j)

Spec == Init /\ [][Next]_vars

\* SpecJob: the whole life of the first job of the process, with MaxReqs
\* handler threads and playlists of up to MaxTracks tracks.
NextJob ==
    \/ \E r \in Reqs, p \in Playlists, o \in Owners, k \in BOOLEAN :
           jobs = <<>> /\ Undecided = {} /\ CreateJobBegin(r, p, o, k)
    \/ \E r \in Reqs, o \in Owners, k \in BOOLEAN :
           jobs = <<>> /\ Undecided = {} /\ RetryFailedBegin(r, o, k)
    \/ \E r \in Reqs : CreateSteps(r)
    \/ \E r \in Reqs : CancelSteps(r)
    \/ \E r \in Reqs : Respond(r)
    \/ \E j \in JobIds, n \in 0..MaxTracks, x \in BOOLEAN : GetTracks(j, n, x)
    \/ \E j \in JobIds : WorkerSteps(j)

SpecJob == Init /\ [][NextJob]_vars

\* SpecFlush: one job, an enrichment over a playlist of up to LongList tracks
\* or a retry, from its create request to the end of its worker.
NextFlush ==
    \/ \E p \in Playlists, o \in Owners :
           jobs = <<>> /\ Undecided = {} /\ CreateJobBegin(1, p, o, TRUE)
    \/ \E o \in Owners :
           jobs = <<>> /\ Undecided = {} /\ RetryFailedBegin(1, o, TRUE)
    \/ CreateSteps(1)
    \/ \E n \in 0..LongList, x \in BOOLEAN : GetTracks(1, n, x)
    \/ WorkerSteps(1)

SpecFlush == Init /\ [][NextFlush]_vars

\* SpecFair: SpecFlush with a scheduler that lets the request handler and
\* the worker take the step they are ready for; which answer a port gives
\* is left open, that it answers is not
SpecFair ==
    /\ Init
    /\ [][NextFlush]_vars
    /\ WF_vars(CreateSteps(1))
    /\ WF_vars(\E n \in 0..LongList, x \in BOOLEAN : GetTracks(1, n, x))
    /\ WF_vars(WorkerSteps(1))

\* stream_job lines 359-360: get_live_state, found or not
OpenStream(j) ==
    /\ stream.pc = "idle"
    /\ stream' = [stream EXCEPT
          !.job = j,
          !.pc = IF job_live_state[j] # NoLive THEN "poll" ELSE "lookup"]
    /\ UNCHANGED <<catalog_vars, usage_vars, backend, concurrency_vars, jobs, cancel_events,
                   event_set, job_live_state, worker, reqs, cancelBegun>>

\* stream_job lines 360-363: job_store.get_job of a job without live entry;
\* 404 if the store has no record of it either
LookupStreamJob ==
    /\ stream.pc = "lookup"
    /\ stream' = [stream EXCEPT
          !.pc = IF stream.job \in 1..Len(jobs) THEN "poll" ELSE "404"]
    /\ UNCHANGED <<catalog_vars, usage_vars, backend, concurrency_vars, jobs, cancel_events,
                   event_set, job_live_state, worker, reqs, cancelBegun>>

\* event_generator lines 367-381: a round that finds a live entry sends it
\* and closes after a terminal one, else sleeps; a round that finds none
\* goes on to the store
PollStream ==
    /\ stream.pc = "poll"
    /\ LET state == job_live_state[stream.job]
       IN stream' =
             IF state = NoLive THEN [stream EXCEPT !.pc = "fallback"]
             ELSE [stream EXCEPT
                      !.last = state.status,
                      !.pc = IF state.status \in TERMINAL_STATUSES
                             THEN "closed" ELSE "poll"]
    /\ UNCHANGED <<catalog_vars, usage_vars, backend, concurrency_vars, jobs, cancel_events,
                   event_set, job_live_state, worker, reqs, cancelBegun>>

\* event_generator lines 369-375: the persisted record, if there is one, is
\* sent as the final state, and the stream closes
SendPersistedAndClose ==
    /\ stream.pc = "fallback"
    /\ stream' = [stream EXCEPT
          !.last = IF stream.job \in 1..Len(jobs)
                   THEN jobs[stream.job].status ELSE @,
          !.pc = "closed"]
    /\ UNCHANGED <<catalog_vars, usage_vars, backend, concurrency_vars, jobs, cancel_events,
                   event_set, job_live_state, worker, reqs, cancelBegun>>

\* SpecStream: one job over a playlist of up to ShortList tracks and one
\* stream connection for a job id, opened at any moment.
NextStream ==
    \/ \E p \in Playlists, o \in Owners :
           jobs = <<>> /\ Undecided = {} /\ CreateJobBegin(1, p, o, TRUE)
    \/ \E o \in Owners :
           jobs = <<>> /\ Undecided = {} /\ RetryFailedBegin(1, o, TRUE)
    \/ CreateSteps(1)
    \/ \E n \in 0..ShortList, x \in BOOLEAN : GetTracks(1, n, x)
    \/ WorkerSteps(1)
    \/ \E j \in JobIds : OpenStream(j)
    \/ LookupStreamJob
    \/ PollStream
    \/ SendPersistedAndClose

SpecStream == Init /\ [][NextStream]_vars

\* SpecCreate: MaxReqs create requests racing on an empty jobs table; no
\* worker runs and no response is recycled, so every outcome stays visible.
NextCreate ==
    \/ \E r \in Reqs, p \in Playlists, o \in Owners, k \in BOOLEAN :
           RoomFor(MaxJobs) /\ CreateJobBegin(r, p, o, k)
    \/ \E r \in Reqs, o \in Owners, k \in BOOLEAN :
           RoomFor(MaxJobs) /\ RetryFailedBegin(r, o, k)
    \/ \E r \in Reqs : CreateSteps(r)

SpecCreate == Init /\ [][NextCreate]_vars

\* ------------------------------------------------------------------------
\* process_playlist (enrichment/enrichment.py)
\* ------------------------------------------------------------------------

\* the title every stored track and playlist entry carries
StoredTitle == "Song"

\* the records a catalog holds when a run starts: none, an enriched track, a
\* failed track, a non-music track
StoredRecords ==
    {NoTrack,
     TrackRecord("success", "old", StoredTitle, "", 0),
     TrackRecord("error", "none", StoredTitle, "failed", 0),
     TrackRecord("non-music", "none", StoredTitle, "", 0)}

\* a catalog left by earlier runs: save_track writes a track together with a
\* link, so every stored track is linked to an owner at least. Both storage
\* adapters upsert by videoId and merge, so one of them stands for both.
PipelineInit ==
    /\ backend = "tinydb"
    /\ JobsInit
    /\ ConcurrencyInit
    /\ UsageInit
    /\ songs \in [VideoIds -> StoredRecords]
    /\ user_songs \in SUBSET {<<o, v>> \in CatalogOwners \X VideoIds :
                                 songs[v].status # "absent"}
    /\ \A v \in VideoIds : songs[v].status # "absent" =>
           \E o \in CatalogOwners : <<o, v>> \in user_songs
    /\ downloaded = {}
    /\ enriched = {}
    /\ pl = IdleRun
    /\ history = NoHistory
    /\ tables = NoRows
    /\ saves = NoSaves

\* playlists: up to MaxTracks entries, 0 for an entry without videoId
TrackLists == UNION {[1..n -> {0} \cup VideoIds] : n \in 0..MaxTracks}

\* what get_song (and get_album) do for a track of process_playlist
FetchOutcomes == {"raise", "music", "non_music"}

\* what download and enrich do for a track
AudioOutcomes == {"ok", "reported_error", "download_raise", "enrich_raise"}

\* the step record of an iteration that used no port
Step(video_id, path) == [NoStep EXCEPT !.video_id = video_id, !.path = path]

\* logic.py _on_progress lines 133-140: an error entry for a reported
\* track_data that carries an error_message
ReportTrack(job_errors, video_id, track_data) ==
    IF track_data.error_message # ""
    THEN Append(job_errors, video_id)
    ELSE job_errors

\* the run after iteration i: the next track, or the final report
LoopNext(run) ==
    [run EXCEPT !.i = @ + 1,
                !.pc = IF run.i + 1 < Len(run.tracks) THEN "loop" ELSE "final"]

\* an exception that leaves the loop: the run ends with it
Escape(run, step, runner_exit) ==
    [run EXCEPT !.pc = "done", !.runner_exit = runner_exit, !.last = step]

\* mutation: the catalog lookup of the dedup finds nothing
Dedup_Never(wipe, table, video_id) == FALSE

\* mutation: the dedup does not look at the wipe flag
Dedup_IgnoresWipe(wipe, table, video_id) == table[video_id].status # "absent"

\* process_playlist lines 403-405: the track is skipped as cached
Dedup(wipe, table, video_id) == ~wipe /\ table[video_id].status # "absent"

\* mutation: a non-music track is enriched like any other
SkipNonMusic_Never(fetch) == FALSE

\* process_playlist line 443: if not is_music
SkipNonMusic(fetch) == fetch = "non_music"

\* save_enrichment_history (songs/storage.py lines 70-90, Firestore adapter
\* lines 259-274): the record of the pair is replaced; a call that raises
\* writes nothing, and process_playlist swallows the exception
save_enrichment_history(record, status, item_count, raises) ==
    IF raises THEN [record EXCEPT !.lost = TRUE]
    ELSE [exists |-> TRUE, status |-> status, item_count |-> item_count,
          lost |-> FALSE]

\* process_playlist lines 536-551: whatever leaves the try by an exception,
\* CancelledError included, is recorded with status error and item_count 0
\* before it is raised again
HistoryOfExit(record, run, raises) ==
    IF run.runner_exit \in {"cancelled", "exception"}
    THEN save_enrichment_history(record, "error", 0, raises)
    ELSE record

\* process_playlist lines 365-379: the playlist is fetched and tick 0 is
\* reported; an empty playlist returns at once, an exception of the fetcher
\* escapes
StartProcess(owner, wipe, tracks, raises, h_raises) ==
    /\ pl.pc = "idle"
    /\ LET run == [IdleRun EXCEPT !.kind = "process", !.owner = owner,
                                  !.wipe = wipe, !.before = songs,
                                  !.links_before = user_songs]
       IN pl' = IF raises THEN Escape(run, NoStep, "exception")
                ELSE IF tracks = <<>> THEN Escape(run, NoStep, "returned")
                ELSE [run EXCEPT !.pc = "loop", !.tracks = tracks]
    /\ history' = HistoryOfExit(history, pl', h_raises)
    /\ UNCHANGED <<songs, user_songs, downloaded, enriched>>
    /\ UNCHANGED <<job_vars, usage_vars, backend, concurrency_vars, tables, saves>>

\* process_playlist lines 384-514: one iteration of the loop
ProcessPlaylistTrack(cancel, fetch, audio, h_raises) ==
    /\ pl.pc = "loop"
    /\ pl.kind = "process"
    /\ LET video_id == pl.tracks[pl.i + 1]
           title == StoredTitle
           err_data == build_track_data(title, "none", "raised", TRUE, 0)
           meta_data == IF audio = "ok"
                        THEN build_track_data(title, "new", "", TRUE, 0)
                        ELSE build_track_data(title, "none", "reported",
                                              TRUE, 0)
           nm_data == build_track_data(title, "none", "", FALSE, 0)
       IN IF cancel
          THEN \* lines 386-387
               /\ pl' = Escape(pl, Step(video_id, "cancelled"), "cancelled")
               /\ UNCHANGED <<songs, user_songs, downloaded, enriched>>
          ELSE IF video_id = 0
          THEN \* lines 395-397
               /\ pl' = [LoopNext(pl) EXCEPT !.last = Step(0, "no_id")]
               /\ UNCHANGED <<songs, user_songs, downloaded, enriched>>
          ELSE IF Dedup(pl.wipe, songs, video_id)
          THEN \* lines 403-412
               /\ songs' = UpsertTrack(songs, video_id, songs[video_id])
               /\ user_songs' = LinkOwner(user_songs, pl.owner, video_id)
               /\ pl' = [LoopNext(pl) EXCEPT !.last = Step(video_id, "cached")]
               /\ UNCHANGED <<downloaded, enriched>>
          ELSE IF fetch = "raise"
          THEN \* lines 415 and 441 stand outside the try of the track
               /\ pl' = Escape(pl, Step(video_id, "fetch_raised"), "exception")
               /\ UNCHANGED <<songs, user_songs, downloaded, enriched>>
          ELSE IF SkipNonMusic(fetch)
          THEN \* lines 443-460
               /\ songs' = UpsertTrack(songs, video_id, nm_data)
               /\ user_songs' = LinkOwner(user_songs, pl.owner, video_id)
               /\ pl' = [LoopNext(pl) EXCEPT
                            !.last = [Step(video_id, "non_music") EXCEPT
                                         !.is_music = FALSE],
                            !.job_errors =
                                ReportTrack(@, video_id, nm_data),
                            !.n_results = @ + 1]
               /\ UNCHANGED <<downloaded, enriched>>
          ELSE \* lines 465-512
               /\ downloaded' = downloaded \cup {video_id}
               /\ enriched' = IF audio = "download_raise" THEN enriched
                              ELSE enriched \cup {<<video_id, video_id>>}
               /\ LET data == IF audio \in {"download_raise", "enrich_raise"}
                              THEN err_data ELSE meta_data
                      path == CASE audio = "ok" -> "success"
                                [] audio = "reported_error" -> "error_reported"
                                [] OTHER -> "error_raised"
                  IN /\ songs' = UpsertTrack(songs, video_id, data)
                     /\ user_songs' = LinkOwner(user_songs, pl.owner, video_id)
                     /\ pl' = [LoopNext(pl) EXCEPT
                                  !.last = [Step(video_id, path) EXCEPT
                                               !.is_music = fetch = "music"],
                                  !.job_errors =
                                      ReportTrack(@, video_id, data),
                                  !.n_results = @ + 1]
    /\ history' = HistoryOfExit(history, pl', h_raises)
    /\ UNCHANGED <<job_vars, usage_vars, backend, concurrency_vars, tables, saves>>

\* process_playlist lines 516-534 and retry_failed_tracks lines 869-872: the
\* final report, after which the run returns; process_playlist records the
\* run with the length of results first, retry_failed_tracks records nothing
ReturnResults(h_raises) ==
    /\ pl.pc = "final"
    /\ pl' = [pl EXCEPT !.pc = "done", !.runner_exit = "returned"]
    /\ history' = IF pl.kind = "process"
                  THEN save_enrichment_history(history, "completed",
                                               pl.n_results, h_raises)
                  ELSE history
    /\ UNCHANGED <<songs, user_songs, downloaded, enriched>>
    /\ UNCHANGED <<job_vars, usage_vars, backend, concurrency_vars, tables, saves>>

\* ------------------------------------------------------------------------
\* retry_failed_tracks (enrichment/enrichment.py)
\* ------------------------------------------------------------------------

\* the video_ids arguments: None, or a list of ids
VideoIdArgs ==
    {NoVideoIds} \cup {[none |-> FALSE, ids |-> s] : s \in SUBSET VideoIds}

\* the ids of S in ascending order
AscendingSeq(S) ==
    CHOOSE s \in [1..Cardinality(S) -> S] :
        \A a, b \in 1..Cardinality(S) : a < b => s[a] < s[b]

\* retry_failed_tracks lines 629-634: the tracks the run retries
\* ("if video_ids:" is false for None and for an empty list)
RetryTargets(all_failed, video_ids) ==
    IF ~video_ids.none /\ video_ids.ids # {}
    THEN all_failed \cap video_ids.ids
    ELSE all_failed

\* what get_song returns for a retried track, or that it raises
SongInfos ==
    [raises : {FALSE}, is_music : BOOLEAN, playable : BOOLEAN, title : Titles]
    \cup {[raises |-> TRUE, is_music |-> TRUE, playable |-> TRUE,
           title |-> ""]}

\* results of the alternate search, 0 for a result without videoId: none, one
\* without videoId, one with a videoId after one without, and two with a
\* videoId in either order
SearchResults ==
    {<<>>, <<0>>, <<0, MaxVideos + 1>>, <<MaxVideos + 1, MaxVideos + 2>>,
     <<MaxVideos + 2, MaxVideos + 1>>}

\* mutation: the last result with a videoId
search_playable_alternative_Last(results) ==
    LET with_id == {k \in 1..Len(results) : results[k] # 0}
    IN IF with_id = {} THEN 0
       ELSE results[CHOOSE k \in with_id : \A m \in with_id : m <= k]

\* search_playable_alternative: the first result with a videoId, 0 for None
search_playable_alternative(results) ==
    LET with_id == {k \in 1..Len(results) : results[k] # 0}
    IN IF with_id = {} THEN 0
       ELSE results[CHOOSE k \in with_id : \A m \in with_id : k <= m]

\* retry_failed_tracks lines 696-701: the video id now names another song
video_replaced(fetched_title, stored_title) ==
    Lower(fetched_title) # Lower(stored_title) /\ fetched_title # ""

\* retry_failed_tracks lines 793-797: the message of a track without alternate
NoAlternativeReason(replaced) ==
    IF replaced THEN "Video replaced and no alternative found"
    ELSE "UNPLAYABLE and no alternative found"

\* retry_failed_tracks lines 629-638 and 673: the failed tracks of the owner
\* are read and tick 0 is reported; with none the run returns at once
StartRetry(owner, video_ids) ==
    /\ pl.pc = "idle"
    /\ LET all_failed == get_failed_tracks(songs, user_songs, owner)
           failed_tracks == RetryTargets(all_failed, video_ids)
           run == [IdleRun EXCEPT !.kind = "retry", !.owner = owner,
                                  !.video_ids = video_ids, !.before = songs,
                                  !.links_before = user_songs]
       IN pl' = IF failed_tracks = {} THEN Escape(run, NoStep, "returned")
                ELSE [run EXCEPT !.pc = "loop",
                                 !.tracks = AscendingSeq(failed_tracks)]
    /\ UNCHANGED <<songs, user_songs, downloaded, enriched>>
    /\ UNCHANGED <<job_vars, usage_vars, backend, concurrency_vars, history, tables, saves>>

\* retry_failed_tracks lines 679-867: one iteration of the loop
RetryTrack(cancel, song_info, results, alt_raises, audio) ==
    /\ pl.pc = "loop"
    /\ pl.kind = "retry"
    /\ LET video_id == pl.tracks[pl.i + 1]
           title == pl.before[video_id].title
           is_music == song_info.is_music
           replaced == video_replaced(song_info.title, title)
           playable == IF replaced THEN FALSE ELSE song_info.playable
           alt_vid == search_playable_alternative(results)
           download_video_id == IF playable THEN video_id ELSE alt_vid
           playable_video_id == IF playable THEN 0 ELSE alt_vid
           step(path) ==
               [video_id |-> video_id, path |-> path, is_music |-> is_music,
                playable |-> song_info.playable,
                fetched_title |-> song_info.title,
                results |-> IF playable THEN <<>> ELSE results,
                hit |-> IF playable THEN 0 ELSE alt_vid]
           none_data == build_track_data(title, "none",
                                         NoAlternativeReason(replaced),
                                         is_music, 0)
           err_data == build_track_data(title, "none", "raised", is_music, 0)
           meta_data == IF audio = "ok"
                        THEN build_track_data(title, "new", "", is_music,
                                              playable_video_id)
                        ELSE build_track_data(title, "none", "reported",
                                              is_music, playable_video_id)
       IN IF cancel
          THEN \* lines 680-681
               /\ pl' = Escape(pl, Step(video_id, "cancelled"), "cancelled")
               /\ UNCHANGED <<songs, user_songs, downloaded, enriched>>
          ELSE IF song_info.raises
          THEN \* line 689 stands outside the try of the track
               /\ pl' = Escape(pl, Step(video_id, "fetch_raised"), "exception")
               /\ UNCHANGED <<songs, user_songs, downloaded, enriched>>
          ELSE IF ~playable /\ alt_vid = 0
          THEN \* lines 792-817
               /\ songs' = UpsertTrack(songs, video_id, none_data)
               /\ user_songs' = LinkOwner(user_songs, pl.owner, video_id)
               /\ pl' = [LoopNext(pl) EXCEPT
                            !.last = step("no_alternative"),
                            !.job_errors =
                                ReportTrack(@, video_id, none_data)]
               /\ UNCHANGED <<downloaded, enriched>>
          ELSE IF ~playable /\ alt_raises
          THEN \* line 775 stands outside the try of the track
               /\ pl' = Escape(pl, step("fetch_raised"), "exception")
               /\ UNCHANGED <<songs, user_songs, downloaded, enriched>>
          ELSE \* lines 820-865
               /\ downloaded' = downloaded \cup {download_video_id}
               /\ enriched' = IF audio = "download_raise" THEN enriched
                              ELSE enriched \cup
                                       {<<video_id, download_video_id>>}
               /\ LET data == IF audio \in {"download_raise", "enrich_raise"}
                              THEN err_data ELSE meta_data
                      path == CASE audio = "ok" -> "success"
                                [] audio = "reported_error" -> "error_reported"
                                [] OTHER -> "error_raised"
                  IN /\ songs' = UpsertTrack(songs, video_id, data)
                     /\ user_songs' = LinkOwner(user_songs, pl.owner, video_id)
                     /\ pl' = [LoopNext(pl) EXCEPT
                                  !.last = step(path),
                                  !.job_errors =
                                      ReportTrack(@, video_id, data)]
    /\ UNCHANGED <<job_vars, usage_vars, backend, concurrency_vars, history, tables, saves>>

\* one run of process_playlist over a catalog
NextProcess ==
    \/ \E o \in Owners, w \in BOOLEAN, t \in TrackLists, x \in BOOLEAN,
          h \in BOOLEAN :
           StartProcess(o, w, t, x, h)
    \/ \E c \in BOOLEAN, f \in FetchOutcomes, a \in AudioOutcomes,
          h \in BOOLEAN :
           ProcessPlaylistTrack(c, f, a, h)
    \/ \E h \in BOOLEAN : ReturnResults(h)

SpecProcess == PipelineInit /\ [][NextProcess]_vars

\* the answers of the ports of one iteration: a port the iteration does not
\* call (after a cancellation or an escaped exception, the search for a
\* playable track, the audio of a track without alternate) has one answer
Searches(cancel, song_info) ==
    /\ ~cancel
    /\ ~song_info.raises
    /\ ~song_info.playable \/ video_replaced(song_info.title, StoredTitle)

PortAnswers(cancel, song_info, results, alt_raises, audio) ==
    LET searches == Searches(cancel, song_info)
        found == searches /\ search_playable_alternative(results) # 0
    IN /\ cancel => song_info.raises
       /\ ~searches => results = <<>>
       /\ ~found => ~alt_raises
       /\ (cancel \/ song_info.raises \/ alt_raises \/ (searches /\ ~found))
             => audio = "ok"

\* one run of retry_failed_tracks over a catalog
NextRetry ==
    \/ \E o \in Owners, ids \in VideoIdArgs : StartRetry(o, ids)
    \/ /\ pl.pc = "loop"
       /\ \E c \in BOOLEAN, s \in SongInfos :
           /\ c => s.raises
           /\ \E r \in SearchResults :
                 /\ Searches(c, s) \/ r = <<>>
                 /\ \E x \in BOOLEAN, a \in AudioOutcomes :
                       /\ PortAnswers(c, s, r, x, a)
                       /\ RetryTrack(c, s, r, x, a)
    \/ ReturnResults(FALSE)

SpecRetry == PipelineInit /\ [][NextRetry]_vars

\* ------------------------------------------------------------------------
\* AI usage accounting (jobs/logic.py, jobs/storage.py, FirestoreJobsAdapter)
\* ------------------------------------------------------------------------

\* the usage document is missing (an owner who never ran a job, prior = 0),
\* or it holds the usage of earlier jobs (prior > 0)
UsageStoreInit ==
    /\ backend \in {"tinydb", "firestore"}
    /\ JobsInit
    /\ ConcurrencyInit
    /\ CatalogInit
    /\ ai_usage \in {UsageRecord(FALSE, 0, 0), UsageRecord(TRUE, 1, 1)}
    /\ usage_task = [t \in UsageTasks |-> IdleTask]
    /\ ai_usage_live = NoLiveUsage

\* mutation: the counter is set to the delta
update_ai_usage_Absolute(record, input_tokens_delta) ==
    [record EXCEPT !.exists = TRUE, !.tokens = input_tokens_delta]

\* update_ai_usage of both adapters: the counter grows by the delta in one
\* step (under _db_lock in TinyDB, by an Increment transform in Firestore);
\* a missing record is created with the delta
update_ai_usage(record, input_tokens_delta) ==
    [record EXCEPT !.exists = TRUE, !.tokens = @ + input_tokens_delta]

\* the record get_ai_usage writes when it finds none
ZeroRecord(record) == [record EXCEPT !.exists = TRUE, !.tokens = 0]

\* a task after its get_ai_usage returned: a job goes on to its ticks, a
\* reader has answered its request
AfterGet(task) ==
    IF task.kind = "job" THEN [task EXCEPT !.pc = "ticks"] ELSE IdleTask

\* run_enrichment_job line 88: a worker starts and asks for the baseline
StartUsageJob(t) ==
    /\ usage_task[t].pc = "idle"
    /\ usage_task' = [usage_task EXCEPT ![t] =
          [IdleTask EXCEPT !.pc = "get", !.kind = "job"]]
    /\ UNCHANGED <<ai_usage, ai_usage_live, job_vars, catalog_vars, backend, concurrency_vars>>

\* routes.py lines 236-242 and 259-260: GET /ai-usage/current, or one round
\* of the usage stream
StartUsageReader(t) ==
    /\ usage_task[t].pc = "idle"
    /\ usage_task' = [usage_task EXCEPT ![t] =
          [IdleTask EXCEPT !.pc = "get", !.kind = "reader"]]
    /\ UNCHANGED <<ai_usage, ai_usage_live, job_vars, catalog_vars, backend, concurrency_vars>>

\* get_ai_usage. TinyDB (storage.py lines 184-193): search and insert under
\* _db_lock, one step. Firestore (firestore_adapter.py lines 455-458): the
\* get() of the document; the set() of a missing one is the next step
GetAiUsage(t) ==
    /\ usage_task[t].pc = "get"
    /\ IF backend = "tinydb"
       THEN /\ ai_usage' = IF ai_usage.exists THEN ai_usage
                           ELSE ZeroRecord(ai_usage)
            /\ usage_task' = [usage_task EXCEPT ![t] = AfterGet(@)]
       ELSE /\ UNCHANGED ai_usage
            /\ usage_task' = [usage_task EXCEPT ![t] =
                  IF ai_usage.exists THEN AfterGet(@)
                  ELSE [@ EXCEPT !.pc = "set", !.doc_exists = FALSE]]
    /\ UNCHANGED <<ai_usage_live, job_vars, catalog_vars, backend, concurrency_vars>>

\* firestore_adapter.py lines 459-461: document(owner).set(record), a plain
\* write of the zero record, whatever the document holds by now
SetMissingUsage(t) ==
    /\ usage_task[t].pc = "set"
    /\ ai_usage' = ZeroRecord(ai_usage)
    /\ usage_task' = [usage_task EXCEPT ![t] = AfterGet(@)]
    /\ UNCHANGED <<ai_usage_live, job_vars, catalog_vars, backend, concurrency_vars>>

\* _on_progress lines 142-149 and 175-183: the delta of the tick against the
\* previous tick of this job, persisted if positive
OnProgressUsage(t, tokens) ==
    /\ usage_task[t].pc = "ticks"
    /\ Len(usage_task[t].ticks) < MaxTicks
    /\ tokens >= usage_task[t].prev_tokens
    /\ LET delta_tokens == tokens - usage_task[t].prev_tokens
       IN /\ usage_task' = [usage_task EXCEPT
                 ![t].prev_tokens = tokens,
                 ![t].ticks = Append(@, tokens)]
          /\ ai_usage' = IF delta_tokens > 0
                         THEN update_ai_usage(ai_usage, delta_tokens)
                         ELSE ai_usage
    /\ UNCHANGED <<ai_usage_live, job_vars, catalog_vars, backend, concurrency_vars>>

\* run_enrichment_job lines 240-250: the job ends; no usage update follows
FinishUsageJob(t) ==
    /\ usage_task[t].pc = "ticks"
    /\ usage_task' = [usage_task EXCEPT ![t].pc = "done"]
    /\ UNCHANGED <<ai_usage, ai_usage_live, job_vars, catalog_vars, backend, concurrency_vars>>

\* jobs and readers of one owner, interleaved
NextUsage ==
    \/ \E t \in UsageTasks : StartUsageJob(t)
    \/ \E t \in UsageTasks : StartUsageReader(t)
    \/ \E t \in UsageTasks : GetAiUsage(t)
    \/ \E t \in UsageTasks : SetMissingUsage(t)
    \/ \E t \in UsageTasks, k \in TickValues : OnProgressUsage(t, k)
    \/ \E t \in UsageTasks : FinishUsageJob(t)

SpecUsage == UsageStoreInit /\ [][NextUsage]_vars

\* ------------------------------------------------------------------------
\* The owner-level live usage map and the usage stream
\* ------------------------------------------------------------------------

\* an owner with a usage record, no job yet on this instance
LiveInit ==
    /\ backend \in {"tinydb", "firestore"}
    /\ JobsInit
    /\ ConcurrencyInit
    /\ CatalogInit
    /\ ai_usage = UsageRecord(TRUE, 1, 1)
    /\ usage_task = [t \in UsageTasks |-> IdleTask]
    /\ ai_usage_live = NoLiveUsage

\* a live entry that holds input_tokens
LiveUsage(input_tokens) == [present |-> TRUE, input_tokens |-> input_tokens]

\* run_enrichment_job line 88: get_ai_usage of an owner whose record exists
\* returns it and writes nothing, in both adapters
ReadBaseline(t) ==
    /\ usage_task[t].pc = "get"
    /\ usage_task[t].kind = "job"
    /\ ai_usage.exists
    /\ usage_task' = [usage_task EXCEPT
          ![t].pc = "seed", ![t].baseline = ai_usage.tokens]
    /\ UNCHANGED <<ai_usage, ai_usage_live, job_vars, catalog_vars, backend, concurrency_vars>>

\* lines 105-108: the live entry is seeded with the baseline if the owner
\* has none
SeedLiveUsage(t) ==
    /\ usage_task[t].pc = "seed"
    /\ ai_usage_live' = IF ai_usage_live.present THEN ai_usage_live
                        ELSE LiveUsage(usage_task[t].baseline)
    /\ usage_task' = [usage_task EXCEPT ![t].pc = "ticks", ![t].baseline = 0]
    /\ UNCHANGED <<ai_usage, job_vars, catalog_vars, backend, concurrency_vars>>

\* _on_progress lines 142-170: the delta of the tick is added to the live
\* entry under _live_state_lock; a positive delta goes on to be persisted
AddLiveDelta(t, tokens) ==
    /\ usage_task[t].pc = "ticks"
    /\ Len(usage_task[t].ticks) < MaxTicks
    /\ tokens >= usage_task[t].prev_tokens
    /\ LET delta_tokens == tokens - usage_task[t].prev_tokens
       IN /\ usage_task' = [usage_task EXCEPT
                 ![t].prev_tokens = tokens,
                 ![t].ticks = Append(@, tokens),
                 ![t].delta = delta_tokens,
                 ![t].pc = IF delta_tokens > 0 THEN "persist" ELSE "ticks"]
          /\ ai_usage_live' =
                LiveUsage(ai_usage_live.input_tokens + delta_tokens)
    /\ UNCHANGED <<ai_usage, job_vars, catalog_vars, backend, concurrency_vars>>

\* lines 175-183, the call of update_ai_usage: it may raise, and the
\* exception is swallowed. TinyDB returns the record it wrote under
\* _db_lock; Firestore (firestore_adapter.py lines 475-483) has applied the
\* Increment and is still to read the document back
PersistDelta(t, raises) ==
    /\ usage_task[t].pc = "persist"
    /\ IF raises
       THEN /\ usage_task' = [usage_task EXCEPT ![t].pc = "ticks"]
            /\ UNCHANGED ai_usage
       ELSE /\ ai_usage' = update_ai_usage(ai_usage, usage_task[t].delta)
            /\ usage_task' = [usage_task EXCEPT
                  ![t].pc = IF backend = "tinydb" THEN "set_live"
                            ELSE "read_back",
                  ![t].updated = ai_usage'.tokens]
    /\ UNCHANGED <<ai_usage_live, job_vars, catalog_vars, backend, concurrency_vars>>

\* firestore_adapter.py line 484: return doc_ref.get().to_dict(), a read of
\* its own after the write
ReadBackUsage(t) ==
    /\ usage_task[t].pc = "read_back"
    /\ usage_task' = [usage_task EXCEPT
          ![t].pc = "set_live", ![t].updated = ai_usage.tokens]
    /\ UNCHANGED <<ai_usage, ai_usage_live, job_vars, catalog_vars, backend, concurrency_vars>>

\* lines 180-181: _ai_usage_live[owner] = updated
SetLiveUsage(t) ==
    /\ usage_task[t].pc = "set_live"
    /\ ai_usage_live' = LiveUsage(usage_task[t].updated)
    /\ usage_task' = [usage_task EXCEPT ![t].pc = "ticks", ![t].updated = 0]
    /\ UNCHANGED <<ai_usage, job_vars, catalog_vars, backend, concurrency_vars>>

\* stream_ai_usage line 259: a round of the stream begins with
\* get_live_ai_usage; a missing entry is None
ReadLiveUsage(t) ==
    /\ usage_task[t].pc = "idle"
    /\ usage_task' = [usage_task EXCEPT ![t] =
          [IdleTask EXCEPT !.pc = "read_db", !.kind = "stream",
                           !.live = ai_usage_live]]
    /\ UNCHANGED <<ai_usage, ai_usage_live, job_vars, catalog_vars, backend, concurrency_vars>>

\* stream_ai_usage lines 264-266: usage = live if live_tokens > db_tokens
\* else db_usage, where a missing live entry counts as 0 tokens
ChooseUsage(live, db_tokens) ==
    LET live_tokens == IF live.present THEN live.input_tokens ELSE 0
    IN IF live_tokens > db_tokens THEN live.input_tokens ELSE db_tokens

\* stream_ai_usage lines 260-266: get_ai_usage of the existing record, and
\* the choice between the two
ReadDbUsage(t) ==
    /\ usage_task[t].pc = "read_db"
    /\ ai_usage.exists
    /\ usage_task' = [usage_task EXCEPT
          ![t].pc = "sent", ![t].db = ai_usage.tokens,
          ![t].usage = ChooseUsage(usage_task[t].live, ai_usage.tokens)]
    /\ UNCHANGED <<ai_usage, ai_usage_live, job_vars, catalog_vars, backend, concurrency_vars>>

\* stream_ai_usage lines 268-276: the event is sent if it differs from the
\* last one, the round sleeps and ends
EndStreamRound(t) ==
    /\ usage_task[t].pc = "sent"
    /\ usage_task' = [usage_task EXCEPT ![t] = IdleTask]
    /\ UNCHANGED <<ai_usage, ai_usage_live, job_vars, catalog_vars, backend, concurrency_vars>>

\* the tasks that run a worker, the task that serves the usage stream
LiveWorkers == 1..MaxJobs
StreamReader == MaxTasks

\* cumulative token counts a tick of these workers may report
LiveTickValues == {1, 2}

\* workers of one owner and rounds of the owner's usage stream on one
\* instance
NextLive ==
    \/ \E t \in LiveWorkers : StartUsageJob(t)
    \/ \E t \in LiveWorkers : ReadBaseline(t)
    \/ \E t \in LiveWorkers : SeedLiveUsage(t)
    \/ \E t \in LiveWorkers, k \in LiveTickValues : AddLiveDelta(t, k)
    \/ \E t \in LiveWorkers, raises \in BOOLEAN : PersistDelta(t, raises)
    \/ \E t \in LiveWorkers : ReadBackUsage(t)
    \/ \E t \in LiveWorkers : SetLiveUsage(t)
    \/ \E t \in LiveWorkers : FinishUsageJob(t)
    \/ ReadLiveUsage(StreamReader)
    \/ ReadDbUsage(StreamReader)
    \/ EndStreamRound(StreamReader)

SpecLive == LiveInit /\ [][NextLive]_vars

\* ------------------------------------------------------------------------
\* save_track on the rows of the tables (songs/storage.py, FirestoreSongsAdapter)
\* ------------------------------------------------------------------------

\* number of save_track calls in one behaviour
MaxSaves == 3

\* the owners are the "sub" of authenticated users, or "local"
RowOwners == {"local", "1001"}

\* videoId values of track_data; "" stands for a missing one. YouTube ids may
\* hold an underscore
RowVideoIds == {"", "abc", "a_c"}

\* the other fields of track_data
RowData == {"first", "second"}

SaveInit ==
    /\ backend \in {"tinydb", "firestore"}
    /\ JobsInit
    /\ ConcurrencyInit
    /\ CatalogInit
    /\ UsageInit

\* a TinyDB row has no key of its own in the model (id ""), a Firestore
\* document has its document id
SongRow(id, video_id, data) == [id |-> id, videoId |-> video_id, data |-> data]
LinkRow(id, owner, video_id) == [id |-> id, owner |-> owner, videoId |-> video_id]

\* mutation: upsert never finds a match and inserts
upsert_Insert(table, video_id, data) ==
    Append(table, SongRow("", video_id, data))

\* TinyDB table.upsert(track_data, Song.videoId == video_id): every matching
\* row is updated, and a row is inserted if none matches
upsert(table, video_id, data) ==
    IF \E k \in 1..Len(table) : table[k].videoId = video_id
    THEN [k \in 1..Len(table) |->
             IF table[k].videoId = video_id
             THEN [table[k] EXCEPT !.data = data] ELSE table[k]]
    ELSE Append(table, SongRow("", video_id, data))

\* Firestore collection.document(id).set(row): the document with that id is
\* written, created if missing
document_set(collection, row) ==
    IF \E k \in 1..Len(collection) : collection[k].id = row.id
    THEN [k \in 1..Len(collection) |->
             IF collection[k].id = row.id THEN row ELSE collection[k]]
    ELSE Append(collection, row)

\* firestore_adapter.py line 76: the id of the ownership document
LinkId(owner, video_id) == owner \o "_" \o video_id

\* a thread enters save_track
BeginSave(t, owner, video_id, data) ==
    /\ saves.call[t].pc = "idle"
    /\ saves.n < MaxSaves
    /\ saves' = [saves EXCEPT
          !.call[t] = [pc |-> "save", owner |-> owner, videoId |-> video_id,
                       data |-> data],
          !.n = @ + 1]
    /\ UNCHANGED <<songs, user_songs, downloaded, enriched, pl, history,
                   tables>>
    /\ UNCHANGED <<job_vars, usage_vars, backend, concurrency_vars>>

\* the call has returned
Returned(t) ==
    [saves EXCEPT !.call[t] = IdleSave,
                  !.done = @ \cup {<<saves.call[t].owner,
                                     saves.call[t].videoId>>}]

\* songs/storage.py lines 44-68, one step under _db_lock: the upsert of the
\* catalog row and the insert of the link if the search finds none; a
\* track_data without videoId is inserted as it is.
\* firestore_adapter.py lines 65-73: without videoId nothing is written,
\* else the tracks document is set; the ownership document is the next step
SaveTrack(t) ==
    /\ saves.call[t].pc = "save"
    /\ LET c == saves.call[t]
           linked == \E k \in 1..Len(tables.user_songs) :
                        /\ tables.user_songs[k].owner = c.owner
                        /\ tables.user_songs[k].videoId = c.videoId
       IN IF backend = "tinydb"
          THEN /\ tables' =
                    IF c.videoId # ""
                    THEN [songs |-> upsert(tables.songs, c.videoId, c.data),
                          user_songs |->
                              IF linked THEN tables.user_songs
                              ELSE Append(tables.user_songs,
                                          LinkRow("", c.owner, c.videoId))]
                    ELSE [tables EXCEPT !.songs =
                             Append(@, SongRow("", "", c.data))]
               /\ saves' = Returned(t)
          ELSE IF c.videoId = ""
          THEN /\ UNCHANGED tables
               /\ saves' = Returned(t)
          ELSE /\ tables' = [tables EXCEPT !.songs =
                    document_set(@, SongRow(c.videoId, c.videoId, c.data))]
               /\ saves' = [saves EXCEPT !.call[t].pc = "link"]
    /\ UNCHANGED <<songs, user_songs, downloaded, enriched, pl, history>>
    /\ UNCHANGED <<job_vars, usage_vars, backend, concurrency_vars>>

\* firestore_adapter.py lines 75-80: the ownership document is set
SetOwnerLink(t) ==
    /\ saves.call[t].pc = "link"
    /\ LET c == saves.call[t]
       IN tables' = [tables EXCEPT !.user_songs =
             document_set(@, LinkRow(LinkId(c.owner, c.videoId),
                                     c.owner, c.videoId))]
    /\ saves' = Returned(t)
    /\ UNCHANGED <<songs, user_songs, downloaded, enriched, pl, history>>
    /\ UNCHANGED <<job_vars, usage_vars, backend, concurrency_vars>>

\* get_all_tracks (songs/storage.py lines 112-132, firestore_adapter.py
\* lines 90-114, past its cache): the catalog rows whose videoId is linked
\* to the owner
get_all_tracks(tabs, owner) ==
    LET video_ids == {tabs.user_songs[k].videoId :
                         k \in {m \in 1..Len(tabs.user_songs) :
                                   /\ tabs.user_songs[m].owner = owner
                                   /\ tabs.user_songs[m].videoId # ""}}
        linked(row) == row.videoId \in video_ids
    IN SelectSeq(tabs.songs, linked)

\* threads that save tracks, interleaved
NextSave ==
    \/ \E t \in SaveThreads, o \in RowOwners, v \in RowVideoIds,
          d \in RowData : BeginSave(t, o, v, d)
    \/ \E t \in SaveThreads : SaveTrack(t)
    \/ \E t \in SaveThreads : SetOwnerLink(t)

SpecSave == SaveInit /\ [][NextSave]_vars

\* ------------------------------------------------------------------------
\* The locks: logic._live_state_lock and the _db_lock of each storage module
\* ------------------------------------------------------------------------

\* with _live_state_lock: entry and exit of the block
Acq == [op |-> "acquire", on |-> "_live_state_lock"]
Rel == [op |-> "release", on |-> "_live_state_lock"]

\* an access to one of the three dicts of logic.py
WriteDict(d) == [op |-> "write", on |-> d]
ReadDict(d) == [op |-> "read", on |-> d]

\* a call of a function of a storage port; with TinyDB the function body is
\* one "with _db_lock" block of its module ("jobs" or "songs")
CallPort(m) == [op |-> "call", on |-> m]

\* mutation of _on_progress: update_ai_usage is called inside the block that
\* adds the delta to the live usage
OnProgressSteps_Nested ==
    <<Acq, WriteDict("_job_live_state"), WriteDict("_ai_usage_live"),
      CallPort("jobs"), WriteDict("_ai_usage_live"), Rel,
      CallPort("jobs")>>

\* _on_progress of a tick with a positive delta that is flushed
OnProgressSteps ==
    <<Acq, WriteDict("_job_live_state"), WriteDict("_ai_usage_live"), Rel,
      CallPort("jobs"),
      Acq, WriteDict("_ai_usage_live"), Rel,
      CallPort("jobs")>>

\* the end of both workers: final live snapshot, terminal update_job, pop
FinaliseSteps ==
    <<Acq, WriteDict("_job_live_state"), Rel,
      CallPort("jobs"),
      Acq, WriteDict("_cancel_events"), Rel>>

\* the start of both workers: register the event, get_ai_usage, initialise
\* the live entry and seed the live usage, update_job to RUNNING
PrologueSteps ==
    <<Acq, WriteDict("_cancel_events"), Rel,
      CallPort("jobs"),
      Acq, WriteDict("_job_live_state"), WriteDict("_ai_usage_live"), Rel,
      CallPort("jobs")>>

\* run_enrichment_job over one track: process_playlist reports a tick and
\* saves the track through the TinyDB adapter it builds for itself
RunEnrichmentJobSteps ==
    PrologueSteps \o OnProgressSteps \o <<CallPort("songs")>> \o FinaliseSteps

\* run_retry_job: the call of retry_failed_tracks raises before any tick
RunRetryJobSteps == PrologueSteps \o FinaliseSteps

\* GET /jobs/{id} of a job without live entry
GetJobSteps ==
    <<Acq, ReadDict("_job_live_state"), Rel, CallPort("jobs")>>

\* POST /jobs/{id}/cancel of an orphaned job
CancelJobSteps ==
    <<Acq, ReadDict("_cancel_events"), Rel, CallPort("jobs"), CallPort("jobs")>>

\* one round of GET /jobs/ai-usage/stream
StreamAiUsageSteps ==
    <<Acq, ReadDict("_ai_usage_live"), Rel, CallPort("jobs")>>

Scripts ==
    {"run_enrichment_job", "run_retry_job", "get_job", "cancel_job",
     "stream_ai_usage"}

StepsOf(script) ==
    CASE script = "run_enrichment_job" -> RunEnrichmentJobSteps
      [] script = "run_retry_job" -> RunRetryJobSteps
      [] script = "get_job" -> GetJobSteps
      [] script = "cancel_job" -> CancelJobSteps
      [] script = "stream_ai_usage" -> StreamAiUsageSteps
      [] OTHER -> <<>>

\* the step a thread is at, or a "none" step at the end of its script
EndOfSteps == [op |-> "none", on |-> "none"]

StepAt(t) ==
    IF thread[t].pc \in 1..Len(StepsOf(thread[t].script))
    THEN StepsOf(thread[t].script)[thread[t].pc]
    ELSE EndOfSteps

\* the storage modules whose functions take a module-level lock: both TinyDB
\* modules; the Firestore jobs adapter takes none, and the workers build the
\* TinyDB songs adapter whatever the backend is
Locked(m) == m = "songs" \/ backend = "tinydb"

\* the threads inside a function of storage module m
InPort(m) == {u \in LockThreads : thread[u].in_port = m}

\* the threads that own the live-state lock
LiveHolders == {u \in LockThreads : thread[u].holds_live}

\* the pool gives a thread a worker or a handler to run
StartThread(t, script) ==
    /\ thread[t].script = "none"
    /\ thread' = [thread EXCEPT ![t] = [IdleThread EXCEPT !.script = script, !.pc = 1]]
    /\ UNCHANGED <<access, runs, backend, job_vars, catalog_vars, usage_vars>>

\* threading.Lock.acquire: blocks while any thread, the caller included,
\* owns the lock
AcquireLive(t) ==
    /\ StepAt(t).op = "acquire"
    /\ LiveHolders = {}
    /\ thread' = [thread EXCEPT ![t].holds_live = TRUE, ![t].pc = @ + 1]
    /\ UNCHANGED <<access, runs, backend, job_vars, catalog_vars, usage_vars>>

\* the end of the with block
ReleaseLive(t) ==
    /\ StepAt(t).op = "release"
    /\ thread' = [thread EXCEPT ![t].holds_live = FALSE, ![t].pc = @ + 1]
    /\ UNCHANGED <<access, runs, backend, job_vars, catalog_vars, usage_vars>>

\* a read or a write of one of the dicts
AccessDict(t) ==
    /\ StepAt(t).op \in {"read", "write"}
    /\ thread' = [thread EXCEPT ![t].pc = @ + 1]
    /\ UNCHANGED <<access, runs, backend, job_vars, catalog_vars, usage_vars>>

\* entry of a storage function: its module lock, where there is one
EnterPort(t) ==
    /\ StepAt(t).op = "call"
    /\ thread[t].in_port = "none"
    /\ Locked(StepAt(t).on) => InPort(StepAt(t).on) = {}
    /\ thread' = [thread EXCEPT ![t].in_port = StepAt(t).on]
    /\ UNCHANGED <<access, runs, backend, job_vars, catalog_vars, usage_vars>>

\* return of the storage function
LeavePort(t) ==
    /\ thread[t].in_port # "none"
    /\ thread' = [thread EXCEPT ![t].in_port = "none", ![t].pc = @ + 1]
    /\ UNCHANGED <<access, runs, backend, job_vars, catalog_vars, usage_vars>>

\* the worker or handler returns and the thread goes back to the pool
FinishThread(t) ==
    /\ thread[t].script # "none"
    /\ thread[t].pc > Len(StepsOf(thread[t].script))
    /\ thread' = [thread EXCEPT ![t] = IdleThread]
    /\ UNCHANGED <<access, runs, backend, job_vars, catalog_vars, usage_vars>>

NextLock ==
    \/ \E t \in LockThreads, s \in Scripts : StartThread(t, s)
    \/ \E t \in LockThreads : AcquireLive(t)
    \/ \E t \in LockThreads : ReleaseLive(t)
    \/ \E t \in LockThreads : AccessDict(t)
    \/ \E t \in LockThreads : EnterPort(t)
    \/ \E t \in LockThreads : LeavePort(t)
    \/ \E t \in LockThreads : FinishThread(t)

SpecLock == Init /\ [][NextLock]_vars

\* ------------------------------------------------------------------------
\* Requests of two users: GET /jobs/{id}, its stream, its cancel, GET /playlists
\* ------------------------------------------------------------------------

\* the authenticated users: user["sub"] of get_current_user
AccessOwners == {"alice", "bob"}

\* get_active_jobs() without owner: the PENDING and RUNNING records of all
\* owners
get_active_jobs(table) ==
    {j \in 1..Len(table) : table[j].status \in {PENDING, RUNNING}}

\* the ids get_all_active_jobs can map playlist_id to: the mapping is keyed
\* by playlist id alone and a later record of the result replaces an earlier
\* one. TinyDB returns the records in insertion order; the order of the
\* Firestore query is that of the document ids, which are random
get_all_active_jobs(table, playlist_id) ==
    LET S == {j \in get_active_jobs(table) : table[j].playlist_id = playlist_id}
    IN IF S = {} THEN {0}
       ELSE IF backend = "tinydb"
            THEN {CHOOSE j \in S : \A k \in S : k <= j}
            ELSE S

\* GET /jobs/{job_id} as caller: live entry first, then the store, else 404
GetJobAs(caller, job_id) ==
    /\ access = NoAccess
    /\ job_id = 0 \/ JobExists(jobs, job_id)
    /\ access' = [NoAccess EXCEPT
          !.op = "get_job", !.caller = caller, !.job = job_id,
          !.answer = IF job_id # 0 /\ job_live_state[job_id] # NoLive
                     THEN "200_live"
                     ELSE IF JobExists(jobs, job_id) THEN "200_persisted"
                          ELSE "404"]
    /\ UNCHANGED <<thread, runs, backend, job_vars, catalog_vars, usage_vars>>

\* GET /jobs/{job_id}/stream as caller, up to the response: the job must
\* exist in the live state or in the store
StreamJobAs(caller, job_id) ==
    /\ access = NoAccess
    /\ job_id = 0 \/ JobExists(jobs, job_id)
    /\ access' = [NoAccess EXCEPT
          !.op = "stream_job", !.caller = caller, !.job = job_id,
          !.answer = IF \/ job_id # 0 /\ job_live_state[job_id] # NoLive
                        \/ JobExists(jobs, job_id)
                     THEN "200_stream" ELSE "404"]
    /\ UNCHANGED <<thread, runs, backend, job_vars, catalog_vars, usage_vars>>

\* POST /jobs/{job_id}/cancel as caller: the event of a job of this process
\* is set; a job without event is looked up, and marked failed unless it is
\* missing or terminal
CancelJobAs(caller, job_id) ==
    /\ access = NoAccess
    /\ job_id = 0 \/ JobExists(jobs, job_id)
    /\ IF job_id \in cancel_events
       THEN /\ event_set' = event_set \cup {job_id}
            /\ cancelBegun' =
                  [cancelBegun EXCEPT ![job_id] =
                      IF /\ job_id \notin event_set
                         /\ jobs[job_id].status = RUNNING
                         /\ InTrackLoop(job_id)
                         /\ TracksBegun(job_id) < worker[job_id].total
                      THEN TracksBegun(job_id)
                      ELSE @]
            /\ access' = [NoAccess EXCEPT
                  !.op = "cancel_job", !.caller = caller, !.job = job_id,
                  !.answer = "200_requested"]
            /\ UNCHANGED jobs
       ELSE /\ jobs' = IF /\ JobExists(jobs, job_id)
                          /\ jobs[job_id].status \notin TERMINAL_STATUSES
                       THEN update_job(jobs, job_id,
                                [status |-> ERROR, message |-> "orphaned"])
                       ELSE jobs
            /\ access' = [NoAccess EXCEPT
                  !.op = "cancel_job", !.caller = caller, !.job = job_id,
                  !.answer = IF ~JobExists(jobs, job_id) THEN "404"
                             ELSE IF jobs[job_id].status \in TERMINAL_STATUSES
                                  THEN "409"
                                  ELSE "200_orphaned"]
            /\ UNCHANGED <<event_set, cancelBegun>>
    /\ UNCHANGED <<thread, runs, backend, catalog_vars, usage_vars, stream,
                   cancel_events, job_live_state, worker, reqs>>

\* GET /playlists as caller: the annotation of the caller's playlist with
\* that id from get_all_active_jobs
GetPlaylistsAs(caller, playlist_id) ==
    /\ access = NoAccess
    /\ \E j \in get_all_active_jobs(jobs, playlist_id) :
          access' = [NoAccess EXCEPT
              !.op = "get_playlists", !.caller = caller,
              !.playlist = playlist_id, !.answer = "200",
              !.is_running = (j # 0), !.job = j]
    /\ UNCHANGED <<thread, runs, backend, job_vars, catalog_vars, usage_vars>>

\* the response has gone out
AccessRespond ==
    /\ access # NoAccess
    /\ access' = NoAccess
    /\ UNCHANGED <<thread, runs, backend, job_vars, catalog_vars, usage_vars>>

\* SpecAccess: two users create jobs for the playlist id they share, the
\* workers start and wait for the playlist, and either user sends the
\* requests above
NextAccess ==
    \/ \E p \in Playlists, o \in AccessOwners :
           RoomFor(MaxJobs) /\ CreateJobBegin(1, p, o, TRUE)
    \/ CreateSteps(1)
    \/ Respond(1)
    \/ \E j \in JobIds : RegisterCancelEvent(j)
    \/ \E j \in JobIds : InitLiveState(j)
    \/ \E j \in JobIds : MarkRunning(j)
    \/ \E c \in AccessOwners, j \in {0} \cup JobIds : GetJobAs(c, j)
    \/ \E c \in AccessOwners, j \in {0} \cup JobIds : StreamJobAs(c, j)
    \/ \E c \in AccessOwners, j \in {0} \cup JobIds : CancelJobAs(c, j)
    \/ \E c \in AccessOwners, p \in Playlists : GetPlaylistsAs(c, p)
    \/ AccessRespond

SpecAccess == Init /\ [][NextAccess]_vars

\* ------------------------------------------------------------------------
\* Two runs of process_playlist on one catalog, one track each, wipe = False
\* ------------------------------------------------------------------------

\* a job of owner reaches a track with that video id in its list
StartRun(r, owner, video_id) ==
    /\ runs[r].pc = "idle"
    /\ runs' = [runs EXCEPT ![r] =
          [IdleRace EXCEPT !.pc = "check", !.owner = owner, !.video_id = video_id]]
    /\ UNCHANGED <<thread, access, backend, job_vars, catalog_vars, usage_vars>>

\* lines 403-404: get_track_by_id, and the branch on its answer
CheckExisting(r) ==
    /\ runs[r].pc = "check"
    /\ runs' = [runs EXCEPT ![r].pc =
          IF Dedup(FALSE, songs, runs[r].video_id) THEN "link" ELSE "enrich"]
    /\ UNCHANGED <<thread, access, backend, job_vars, catalog_vars, usage_vars>>

\* lines 405-412: the cached track is saved again with the owner of the run
LinkCached(r) ==
    /\ runs[r].pc = "link"
    /\ songs' = UpsertTrack(songs, runs[r].video_id, songs[runs[r].video_id])
    /\ user_songs' = LinkOwner(user_songs, runs[r].owner, runs[r].video_id)
    /\ runs' = [runs EXCEPT ![r].pc = "done"]
    /\ UNCHANGED <<thread, access, backend, job_vars, usage_vars, downloaded,
                   enriched, pl, history, tables, saves>>

\* lines 414-489: get_song, the download and audio_enricher.enrich, all of
\* which answer without error
EnrichTrack(r) ==
    /\ runs[r].pc = "enrich"
    /\ downloaded' = downloaded \cup {runs[r].video_id}
    /\ enriched' = enriched \cup {runs[r].video_id}
    /\ runs' = [runs EXCEPT ![r].pc = "save", ![r].enriched = @ + 1]
    /\ UNCHANGED <<thread, access, backend, job_vars, usage_vars, songs,
                   user_songs, pl, history, tables, saves>>

\* lines 490-491: save_track of the enriched track
SaveEnriched(r) ==
    /\ runs[r].pc = "save"
    /\ songs' = UpsertTrack(songs, runs[r].video_id,
                    build_track_data(StoredTitle, "new", "", TRUE, 0))
    /\ user_songs' = LinkOwner(user_songs, runs[r].owner, runs[r].video_id)
    /\ runs' = [runs EXCEPT ![r].pc = "done"]
    /\ UNCHANGED <<thread, access, backend, job_vars, usage_vars, downloaded,
                   enriched, pl, history, tables, saves>>

\* SpecDedup: the runs of two jobs, of one owner or of two, interleaved
NextDedup ==
    \/ \E r \in RunIds, o \in CatalogOwners, v \in VideoIds : StartRun(r, o, v)
    \/ \E r \in RunIds : CheckExisting(r)
    \/ \E r \in RunIds : LinkCached(r)
    \/ \E r \in RunIds : EnrichTrack(r)
    \/ \E r \in RunIds : SaveEnriched(r)

SpecDedup == Init /\ [][NextDedup]_vars

\* ------------------------------------------------------------------------
\* Properties
\* ------------------------------------------------------------------------

\* s is an initial segment of t
IsPrefix(s, t) == Len(s) <= Len(t) /\ SubSeq(t, 1, Len(s)) = s

\* C1, as the specification words it: at any moment at most one job record
\* per (playlist_id, owner) pair is PENDING or RUNNING. The code violates it
\* (Spec): cancel_job marks a freshly created job ERROR before its worker has
\* registered, a second job of the pair is admitted, and the first worker
\* then writes RUNNING over the ERROR.
C1_AtMostOneActivePerPair ==
    \A a, b \in 1..Len(jobs) :
        (/\ a # b
         /\ jobs[a].playlist_id = jobs[b].playlist_id
         /\ jobs[a].owner = jobs[b].owner
         /\ jobs[a].status \in {PENDING, RUNNING})
        => jobs[b].status \notin {PENDING, RUNNING}

C3_AdmissionFollowsActiveJob ==
    [][\A r \in Reqs :
        LET q == reqs[r]
            n == Len(jobs) + 1
            active == \E j \in 1..Len(jobs) :
                          /\ jobs[j].playlist_id = q.playlist_id
                          /\ jobs[j].owner = q.owner
                          /\ jobs[j].status \notin {COMPLETED, ERROR, CANCELLED}
        IN (q.pc \in {"check_create", "txn_commit"} /\ reqs'[r] # q) =>
              IF active
              THEN /\ jobs' = jobs
                   /\ reqs'[r].job = 0
                   /\ q.pc = "check_create" => reqs'[r].result = "409"
              ELSE \/ /\ backend = "firestore"
                      /\ q.pc = "check_create"
                      /\ reqs'[r].pc = "txn_commit"
                      /\ jobs' = jobs
                   \/ /\ Len(jobs') = n
                      /\ SubSeq(jobs', 1, Len(jobs)) = jobs
                      /\ jobs'[n].status = PENDING
                      /\ jobs'[n].playlist_id = q.playlist_id
                      /\ jobs'[n].owner = q.owner
                      /\ reqs'[r].job = n
                      /\ reqs'[r].result # "409"
      ]_vars

\* C3, its case: the first job of a pair has completed and a later create of
\* the same pair has just inserted a second, PENDING job
C3_Witness ==
    \E a, b \in 1..Len(jobs) :
        /\ a < b
        /\ jobs[a].playlist_id = jobs[b].playlist_id
        /\ jobs[a].owner = jobs[b].owner
        /\ jobs[a].status = COMPLETED
        /\ jobs[b].status = PENDING
        /\ \E r \in Reqs : reqs[r].kind = "create" /\ reqs[r].job = b

\* C4, as the specification words it: a create request that is rejected (400
\* for the missing API key, 401 for the missing or unrefreshable Google
\* credential, 409 for the active job) has inserted no job record. The code
\* violates it (SpecCreate): the credential is examined after the record has
\* been inserted, and the 401 leaves the PENDING record behind.
C4_RejectedCreateLeavesNoJob ==
    \A r \in Reqs :
        (/\ reqs[r].kind \in {"create", "retry"}
         /\ reqs[r].result \in {"400", "401", "409"})
        => reqs[r].job = 0

\* C5, as the specification words it: once the persisted status of a job is
\* terminal it never changes. The code violates it (SpecJob): the record
\* that cancel_job marked ERROR is set to RUNNING by its worker.
C5_TerminalStatusIsFinal ==
    [][\A j \in 1..Len(jobs) :
          jobs[j].status \in {COMPLETED, ERROR, CANCELLED}
              => jobs'[j].status = jobs[j].status
      ]_vars

\* C6, as the specification words it: the step of cancel_job that marks a
\* job orphaned is taken only for a non-terminal job whose worker is not
\* alive, that is, neither running nor scheduled. The code violates it
\* (SpecJob): the worker registers its cancellation event only when it starts
\* to run, so a job whose task is still queued has no event and is marked.
C6_OrphanMarkOnlyWithoutWorker ==
    [][\A r \in Reqs :
          (reqs[r].pc = "mark_orphaned" /\ reqs'[r].pc = "done") =>
              /\ jobs[reqs[r].job].status \notin {COMPLETED, ERROR, CANCELLED}
              /\ worker[reqs[r].job].pc \in {"none", "done"}
      ]_vars

\* C7, as the specification words it, for a job its worker has finalised: a
\* cancel_job request for a job whose persisted status was terminal when the
\* request was made changes neither the jobs table nor the cancellation
\* signals, and it ends with 409. It fails (SpecJob) between the terminal
\* update of the record and the removal of the worker's event: the event is
\* found, set, and the answer is 200.
C7_TerminalAtCallIsRejected ==
    [][\A r \in Reqs :
          (/\ reqs'[r] # reqs[r]
           /\ reqs'[r].kind = "cancel"
           /\ reqs'[r].at_call \in {COMPLETED, ERROR, CANCELLED}
           /\ worker[reqs'[r].job].pc \in {"cleanup", "done"}) =>
              /\ jobs' = jobs
              /\ event_set' = event_set
              /\ reqs'[r].pc = "done" => reqs'[r].result = "409"
      ]_vars

\* C7, amended (SpecJob): a cancel_job request that finds no cancellation
\* event in memory and then reads a terminal status from the store ends with
\* 409, and neither of its two steps changes the jobs table, the events,
\* the signals, the live state or a worker.
C7_TerminalLookupIsRejected ==
    [][\A r \in Reqs :
          /\ (reqs[r].pc = "idle" /\ reqs'[r].kind = "cancel") =>
                UNCHANGED <<jobs, cancel_events, event_set, job_live_state,
                            worker>>
          /\ (/\ reqs[r].pc = "get_job"
              /\ reqs'[r] # reqs[r]
              /\ reqs[r].job \in 1..Len(jobs)
              /\ jobs[reqs[r].job].status \in {COMPLETED, ERROR, CANCELLED}) =>
                /\ reqs'[r].pc = "done"
                /\ reqs'[r].result = "409"
                /\ UNCHANGED <<jobs, cancel_events, event_set, job_live_state,
                               worker>>
      ]_vars

\* C7, its case: a cancel request for a job that was terminal when it was
\* made, and whose worker is gone, has been answered with 409
C7_Witness ==
    \E r \in Reqs :
        /\ reqs[r].kind = "cancel"
        /\ reqs[r].at_call \in {COMPLETED, ERROR, CANCELLED}
        /\ reqs[r].result = "409"
        /\ reqs[r].job \notin cancel_events

\* C8 (SpecJob): when the runner reaches its cancellation check with the
\* signal set, it leaves the loop by the cancellation, begins no further
\* track and reports no further tick; from then on the worker only
\* finalises, its terminal update writes CANCELLED, and the errors it writes
\* are the per-track errors recorded before, all of them and nothing else.
C8_SignalBeforeCheckCancels ==
    [][\A j \in JobIds :
          LET w == worker[j]
          IN /\ (w.pc = "check" /\ j \in event_set /\ worker'[j] # w) =>
                   /\ worker'[j].runner_exit = "cancelled"
                   /\ worker'[j].pc = "finalize_live"
                   /\ worker'[j].i = w.i
                   /\ worker'[j].job_errors = w.job_errors
                   /\ job_live_state'[j] = job_live_state[j]
             /\ w.runner_exit = "cancelled" =>
                   /\ worker'[j].pc \in
                          {"finalize_live", "finalize_db", "cleanup", "done"}
                   /\ worker'[j].i \in {w.i, 0}
                   /\ worker'[j].pc # "done" =>
                          worker'[j].job_errors = w.job_errors
                   /\ IsPrefix(job_live_state[j].errors,
                               job_live_state'[j].errors)
                   /\ IsPrefix(jobs[j].errors, jobs'[j].errors)
                   /\ (w.pc = "finalize_db" /\ worker'[j].pc = "cleanup") =>
                          /\ jobs'[j].status = CANCELLED
                          /\ jobs'[j].errors = w.job_errors
                          /\ jobs'[j].errors = job_live_state[j].errors
      ]_vars

\* C8, its case: a job with a recorded per-track error has been cancelled
\* at a check and finalised as CANCELLED with that error still in its list
C8_Witness ==
    \E j \in 1..Len(jobs) :
        /\ worker[j].pc = "cleanup"
        /\ worker[j].runner_exit = "cancelled"
        /\ jobs[j].status = CANCELLED
        /\ Len(jobs[j].errors) >= 1
        /\ jobs[j].errors[1] = ErrorEntry(1, "track_error")

C10_TerminalStatusByRunnerExit ==
    [][\A j \in JobIds :
          (worker[j].pc = "finalize_db" /\ worker'[j].pc = "cleanup") =>
              LET x == worker[j].runner_exit
                  rec == jobs'[j]
                  n == Len(rec.errors)
              IN /\ rec.status = CANCELLED <=> x = "cancelled"
                 /\ rec.status = ERROR <=> x = "exception"
                 /\ rec.status = COMPLETED <=> x = "returned"
                 /\ x = "exception" =>
                        /\ rec.message = "exception"
                        /\ n >= 1
                        /\ rec.errors[n] = ErrorEntry(0, "exception")
                 /\ \A k \in 1..n :
                        rec.errors[k].track = 0 => (x = "exception" /\ k = n)
      ]_vars

\* C10, its case: a job whose tracks all failed with per-track errors has
\* returned normally and been finalised as COMPLETED
C10_Witness ==
    \E j \in 1..Len(jobs) :
        /\ worker[j].pc = "cleanup"
        /\ worker[j].runner_exit = "returned"
        /\ jobs[j].status = COMPLETED
        /\ worker[j].total = 2
        /\ Len(jobs[j].errors) = 2

\* C11 (SpecJob): in the live snapshots and in the persisted record of a job
\* the counter current never decreases from one snapshot to the next while
\* the job is not terminal, and the terminal update that writes COMPLETED
\* finds current = total in the persisted record and in the live snapshot.
C11_CurrentIsMonotone ==
    [][\A j \in JobIds :
          /\ (/\ job_live_state[j].status \notin
                     {"absent", COMPLETED, ERROR, CANCELLED}
              /\ job_live_state'[j].status # "absent") =>
                 job_live_state'[j].current >= job_live_state[j].current
          /\ (j \in 1..Len(jobs) /\ jobs[j].status \in {PENDING, RUNNING}) =>
                 jobs'[j].current >= jobs[j].current
          /\ (/\ worker[j].pc = "finalize_db"
              /\ worker'[j].pc = "cleanup"
              /\ jobs'[j].status = COMPLETED) =>
                 /\ jobs'[j].current = jobs'[j].total
                 /\ job_live_state'[j].current = job_live_state'[j].total
      ]_vars

\* C11, its case: a job over two tracks has been finalised as COMPLETED with
\* both counters of the persisted record at 2
C11_Witness ==
    \E j \in 1..Len(jobs) :
        /\ worker[j].pc = "cleanup"
        /\ jobs[j].status = COMPLETED
        /\ jobs[j].total = 2
        /\ jobs[j].current = 2
        /\ job_live_state[j].current = 2

\* C12, as the specification words it: in process_playlist an exception or a
\* reported error during the metadata fetch or the enrichment of one track
\* saves that track with status error, appends one job-level error entry for
\* it, and the loop goes on to the next track; the run is never left by an
\* exception, which would make the job ERROR. The code violates it
\* (SpecProcess): get_song and get_album are called outside the try of the
\* track, so an exception of the metadata fetch leaves process_playlist.
C12_TrackFailureIsIsolated ==
    [][(/\ pl.pc = "loop"
        /\ pl.kind = "process"
        /\ pl'.last.path \in {"fetch_raised", "error_reported", "error_raised"})
       => /\ songs'[pl'.last.video_id].status = "error"
          /\ pl'.job_errors = Append(pl.job_errors, pl'.last.video_id)
          /\ pl'.pc \in {"loop", "final"}
          /\ pl'.runner_exit = "none"]_vars

\* C13: a run of process_playlist with wipe = False over a playlist whose ids
\* are all in the catalog already never calls the Enrichment Port (nor the
\* downloader), leaves every stored record as it was, enrichment fields
\* included, and links every track it has passed to the requesting owner,
\* keeping the links that were there.
C13_DedupRerunOnlyRelinks ==
    (/\ pl.kind = "process"
     /\ ~pl.wipe
     /\ \A k \in 1..Len(pl.tracks) :
           pl.tracks[k] = 0 \/ pl.before[pl.tracks[k]].status # "absent")
    => /\ enriched = {}
       /\ downloaded = {}
       /\ songs = pl.before
       /\ \A v \in VideoIds : songs[v].fields = pl.before[v].fields
       /\ pl.links_before \subseteq user_songs
       /\ \A k \in 1..pl.i :
             pl.tracks[k] # 0 => <<pl.owner, pl.tracks[k]>> \in user_songs
       /\ pl.job_errors = <<>>

\* a finished rerun over two enriched tracks of another owner, now linked to
\* the requesting owner as well
C13_Witness ==
    /\ pl.kind = "process"
    /\ ~pl.wipe
    /\ pl.pc = "done"
    /\ pl.runner_exit = "returned"
    /\ pl.tracks = <<1, 2>>
    /\ \A v \in {1, 2} : /\ pl.before[v].status = "success"
                         /\ songs[v].fields = "old"
                         /\ <<pl.owner, v>> \notin pl.links_before
                         /\ <<pl.owner, v>> \in user_songs
                         /\ <<"bob", v>> \in user_songs
    /\ enriched = {}

\* C14: when the metadata of a track of process_playlist flags it as
\* non-music, the iteration saves the track with status non-music, calls
\* neither the downloader nor the Enrichment Port, and appends nothing to the
\* errors of the job.
C14_NonMusicIsSavedAndSkipped ==
    [][(/\ pl.pc = "loop"
        /\ pl.kind = "process"
        /\ pl'.i = pl.i + 1
        /\ ~pl'.last.is_music)
       => /\ songs'[pl'.last.video_id].status = "non-music"
          /\ songs'[pl'.last.video_id].error_message = ""
          /\ <<pl.owner, pl'.last.video_id>> \in user_songs'
          /\ downloaded' = downloaded
          /\ enriched' = enriched
          /\ pl'.job_errors = pl.job_errors]_vars

\* a fresh scan has just saved a formerly failed track as non-music, with no
\* download, no enrichment and no error entry
C14_Witness ==
    /\ pl.kind = "process"
    /\ pl.last.path = "non_music"
    /\ ~pl.last.is_music
    /\ pl.before[pl.last.video_id].status = "error"
    /\ songs[pl.last.video_id].status = "non-music"
    /\ downloaded = {}
    /\ enriched = {}
    /\ pl.job_errors = <<>>

\* C15, as the specification words it: retry_failed_tracks leaves an
\* unplayable track whose alternate search has no hit with status error and
\* a message that no alternative was found, and goes on to the remaining
\* candidates. The code violates it (SpecRetry): the record of such a track
\* is built with the isMusic flag of the fetched metadata, and a track the
\* metadata flags as non-music is saved with status non-music.
C15_NoHitLeavesError ==
    [][(/\ pl.pc = "loop"
        /\ pl.kind = "retry"
        /\ pl'.i = pl.i + 1
        /\ ~pl'.last.playable
        /\ pl'.last.hit = 0)
       => /\ songs'[pl'.last.video_id].status = "error"
          /\ songs'[pl'.last.video_id].error_message \in
                {NoAlternativeReason(TRUE), NoAlternativeReason(FALSE)}
          /\ pl'.pc \in {"loop", "final"}
          /\ pl'.runner_exit = "none"]_vars

\* C16, as the specification words it: retry_failed_tracks writes only tracks
\* that were in ERROR status for the owner when it started and, when
\* video_ids is given, only tracks of that subset; every other record stays
\* as it was and is not sent to the Enrichment Port. The code violates it
\* (SpecRetry): an empty video_ids list is treated like None, and every
\* failed track of the owner is retried.
C16_WritesOnlyRequestedErrorTracks ==
    LET allowed == {v \in VideoIds :
                       /\ pl.before[v].status = "error"
                       /\ <<pl.owner, v>> \in pl.links_before
                       /\ pl.video_ids.none \/ v \in pl.video_ids.ids}
    IN pl.kind = "retry" =>
           \A v \in VideoIds \ allowed :
               /\ songs[v] = pl.before[v]
               /\ \A m \in VideoIds \cup AltIds : <<v, m>> \notin enriched

SumOfDeltas(ticks, n) ==
    LET RECURSIVE sum(_)
        sum(k) == IF k = 0 THEN 0
                  ELSE sum(k - 1) + (ticks[k] - IF k = 1 THEN 0 ELSE ticks[k - 1])
    IN sum(n)

\* the sum of the deltas of the jobs among the first n tasks
SumOfJobs(n) ==
    LET RECURSIVE sum(_)
        sum(t) == IF t = 0 THEN 0
                  ELSE sum(t - 1) + SumOfDeltas(usage_task[t].ticks,
                                                Len(usage_task[t].ticks))
    IN sum(n)

\* C18, as the specification words it: whatever the interleaving of the ticks
\* of the jobs of one owner, once all of them have finished the persisted
\* usage is its prior value plus, for each job, the sum of its per-tick
\* deltas. The code violates it on Firestore (SpecUsage): the zero record
\* that get_ai_usage writes for a missing document erases the deltas another
\* job has persisted since the document was read (C20).
C18_UsageIsPriorPlusDeltas ==
    (\A t \in UsageTasks : usage_task[t].pc \in {"idle", "done"})
    => ai_usage.tokens = ai_usage.prior + SumOfJobs(MaxTasks)

C20_CountersNeverDecrease ==
    [][/\ ai_usage'.tokens >= ai_usage.tokens
       /\ ai_usage.exists => ai_usage'.exists]_vars

\* C21, as the specification words it: a round of the usage stream that
\* read a live entry and a persisted record with different token counts
\* reports the persisted one. The code reports the live entry whenever it
\* holds more tokens
C21_StreamReportsPersisted ==
    \A t \in UsageTasks :
        (/\ usage_task[t].pc = "sent"
         /\ usage_task[t].live.present
         /\ usage_task[t].live.input_tokens # usage_task[t].db)
        => usage_task[t].usage = usage_task[t].db

\* C28, as the specification words it: every change a worker makes to an
\* existing live entry of the owner is the addition of the delta of a tick
\* it has just reported. The code also overwrites the entry with the record
\* update_ai_usage returned
C28_LiveChangesAreAdditions ==
    [][(ai_usage_live.present /\ ai_usage_live' # ai_usage_live)
       => \E t \in UsageTasks :
             /\ usage_task'[t].ticks # usage_task[t].ticks
             /\ ai_usage_live'.input_tokens =
                   ai_usage_live.input_tokens + usage_task'[t].delta]_vars

\* C27, as the specification words it: once an enrichment worker has
\* finalised its job and returned, the live state cache holds no entry for the job, so that
\* readers fall back to the persisted record. The code never removes an
\* entry of _job_live_state
C27_LiveEntryRemovedAfterFinalize ==
    \A j \in JobIds :
        (worker[j].pc = "done" /\ worker[j].type = ENRICHMENT)
        => job_live_state[j] = NoLive

\* the snapshot GET /jobs/{id} answers with: the live entry if the instance
\* holds one, else the persisted record
Snapshot(live, table, j) == IF live[j] # NoLive THEN live[j] ELSE table[j]

\* C23 (SpecJob): the persisted record and the live entry of a job always
\* carry an errors list, and from one step to the next the errors of the
\* live entry, of the persisted record and of the snapshot a reader gets
\* only grow at the end: the earlier list is an initial segment of the later
C23_ErrorsAppendOnly ==
    [][\A j \in 1..Len(jobs) :
          /\ "errors" \in DOMAIN jobs'[j]
          /\ IsPrefix(jobs[j].errors, jobs'[j].errors)
          /\ job_live_state'[j] # NoLive =>
                "errors" \in DOMAIN job_live_state'[j]
          /\ (job_live_state[j] # NoLive /\ job_live_state'[j] # NoLive) =>
                IsPrefix(job_live_state[j].errors, job_live_state'[j].errors)
          /\ IsPrefix(Snapshot(job_live_state, jobs, j).errors,
                      Snapshot(job_live_state', jobs', j).errors)
      ]_vars

\* C23, its case: a finished job whose persisted record and live entry list
\* two errors
C23_Witness ==
    \E j \in 1..Len(jobs) :
        /\ worker[j].pc = "done"
        /\ Len(jobs[j].errors) = 2
        /\ job_live_state[j] # NoLive
        /\ job_live_state[j].errors = jobs[j].errors

\* the ids of the playlist of the run
PlaylistIds(run) == {run.tracks[k] : k \in 1..Len(run.tracks)}

C26_CurrentStrictlyIncreases ==
    [][\A j \in JobIds :
          (/\ worker[j].pc = "check"
           /\ worker'[j].pc \in {"process", "flush"})
          => worker'[j].current > worker[j].current]_vars

\* C26, amended (SpecJob): within one job the current of successive ticks
\* never decreases and follows the track order: tick 0 carries 0, the
\* "Processing" tick and the result tick of the track at index i carry i, a
\* value at most total - 1, and the final tick carries total.
C26_CurrentFollowsTrackOrder ==
    [][\A j \in JobIds :
          LET w == worker[j]
              v == worker'[j]
          IN /\ w.pc \in {"run", "check", "process", "final_report"} =>
                   v.current >= w.current
             /\ (w.pc = "run" /\ v.pc \in {"check", "flush"}) =>
                   v.current = 0
             /\ (w.pc = "check" /\ v.pc \in {"process", "flush"}) =>
                   v.current = w.i /\ v.current < v.total
             /\ (w.pc = "process" /\ v.pc \notin {"process", "finalize_live"}) =>
                   v.current \in {w.current, w.i} /\ v.current < v.total
             /\ (w.pc = "final_report" /\ v.pc # "final_report") =>
                   v.current = v.total
      ]_vars

\* C26, its case: the final tick of a job over two tracks has been reported
\* with current 2 after the ticks of the second track carried 1
C26_Witness ==
    \E j \in JobIds :
        /\ worker[j].pc = "finalize_live"
        /\ worker[j].runner_exit = "returned"
        /\ worker[j].total = 2
        /\ worker[j].current = 2
        /\ worker[j].i = 2

\* C29 (SpecFlush): while the runner of a job reports ticks, the persisted
\* record is written by the progress callback only, and exactly for the ticks
\* whose current is 0, equals total or is a multiple of 5: such a tick is
\* followed by the write of its own values, any other tick by none; and
\* every tick replaces the live entry by its own snapshot.
C29_FlushOnFirstLastAndFifth ==
    [][\A j \in JobIds :
          LET w == worker[j]
              v == worker'[j]
              due == \/ v.current = 0
                     \/ v.current = v.total
                     \/ v.current % 5 = 0
              ticked == \/ w.pc \in {"run", "final_report"} /\
                           v.pc \in {"check", "flush", "finalize_live"} /\
                           v.runner_exit # "exception" /\ v.total > 0
                        \/ w.pc = "check" /\ v.pc \in {"process", "flush"}
                        \/ w.pc = "process" /\
                           v.pc \in {"check", "final_report", "flush"} /\
                           job_live_state'[j] # job_live_state[j]
          IN /\ ticked =>
                   /\ (v.pc = "flush") <=> due
                   /\ job_live_state'[j] =
                         LiveSnapshot(RUNNING, v.total, v.current, v.message,
                                      v.job_errors)
             /\ (w.pc = "process" /\ v.pc = "flush") => due
             /\ (/\ w.pc \in {"run", "check", "process", "flush",
                              "final_report"}
                 /\ j \in 1..Len(jobs)
                 /\ jobs'[j] # jobs[j]) =>
                   /\ w.pc = "flush"
                   /\ \/ w.current = 0
                      \/ w.current = w.total
                      \/ w.current % 5 = 0
                   /\ jobs'[j].current = w.current
                   /\ jobs'[j].total = w.total
                   /\ jobs'[j].errors = w.job_errors
      ]_vars

\* C29, its case: in a job over six tracks the tick with current 5 has been
\* persisted, after the ticks 1 to 4 went to the live entry only
C29_Witness ==
    \E j \in 1..Len(jobs) :
        /\ jobs[j].status = RUNNING
        /\ jobs[j].total = 6
        /\ jobs[j].current = 5
        /\ job_live_state[j].current = 5
        /\ worker[j].pc = "process"

\* the status the job of a run ends with, by the way the run was left
\* (run_enrichment_job lines 215-227)
AuditStatus(runner_exit) ==
    CASE runner_exit = "returned" -> "completed"
      [] runner_exit = "cancelled" -> "cancelled"
      [] runner_exit = "exception" -> "error"

\* C30, as the specification words it: when a run of process_playlist over
\* a playlist with tracks has ended, by its return, by an exception or by a
\* cancellation, and the history store took the write, the history holds a
\* record of the run with the number of tracks it processed and the final
\* status of the job. The code records a cancellation as an error with
\* item_count 0 and drops the count of an errored run
C30_AuditRecordAtEnd ==
    (/\ pl.kind = "process"
     /\ pl.pc = "done"
     /\ pl.tracks # <<>>
     /\ ~history.lost)
    => /\ history.exists
       /\ history.status = AuditStatus(pl.runner_exit)
       /\ history.item_count = pl.n_results

\* the positions of the rows of a table that carry the videoId
RowsOf(table, video_id) ==
    {k \in 1..Len(table) : table[k].videoId = video_id}

\* C24 (SpecSave): after any sequence of save_track calls the songs table
\* holds at most one row per videoId and the user_songs table at most one
\* row per (owner, videoId); a call that has returned left the track in the
\* track list of its owner, the list of an owner holds a track only if the
\* owner saved it, and two owners that saved the same videoId get the same
\* single row.
C24_OneRecordOneLink ==
    /\ \A v \in RowVideoIds \ {""} :
          Cardinality(RowsOf(tables.songs, v)) <= 1
    /\ \A o \in RowOwners, v \in RowVideoIds :
          Cardinality({k \in RowsOf(tables.user_songs, v) :
                          tables.user_songs[k].owner = o}) <= 1
    /\ \A o \in RowOwners, v \in RowVideoIds \ {""} :
          LET list == get_all_tracks(tables, o)
              hits == RowsOf(list, v)
          IN /\ <<o, v>> \in saves.done => Cardinality(hits) = 1
             /\ hits # {} => <<o, v>> \in saves.done
             /\ \A k \in hits :
                   \A p \in RowOwners :
                      \A m \in RowsOf(get_all_tracks(tables, p), v) :
                         get_all_tracks(tables, p)[m] = list[k]

\* C24, its case: two owners have saved the same videoId, the second with
\* other data; the catalog holds one row of it, with the data saved last,
\* and one link per owner
C24_Witness ==
    /\ {<<"local", "a_c">>, <<"1001", "a_c">>} \subseteq saves.done
    /\ saves.n = MaxSaves
    /\ Len(tables.songs) = 1
    /\ tables.songs[1].data = "second"
    /\ Len(tables.user_songs) = 2
    /\ \A t \in SaveThreads : saves.call[t].pc = "idle"

\* C22, as the specification words it: a stream of an existing job closes
\* only after it has sent a snapshot with a terminal status. The code also
\* closes after the persisted record of a job whose worker has not yet
\* created the live entry, whatever its status
C22_ClosedStreamEndsTerminal ==
    stream.pc = "closed" => stream.last \in TERMINAL_STATUSES

\* C31, as the specification words it: a retry job that is not cancelled and
\* whose retry_failed_tracks run raises nothing is finalised as COMPLETED.
\* The code never enters retry_failed_tracks: the evaluation of its
\* arguments raises NameError, the only exception a retry worker of the
\* model can meet, and the job is finalised as ERROR
C31_RetryJobCompletes ==
    \A j \in JobIds :
        (/\ worker[j].type = RETRY
         /\ worker[j].pc \in {"finalize_db", "cleanup"}
         /\ worker[j].final_status # CANCELLED)
        => worker[j].final_status = COMPLETED

\* C32: the terminal update of run_enrichment_job and run_retry_job changes
\* the status, message and errors of its own record only: total, current,
\* type, playlist and owner of that record, and every other record, are
\* left as they were
C32_FinalizeKeepsProgress ==
    [][\A j \in JobIds :
          (worker[j].pc = "finalize_db" /\ worker'[j].pc = "cleanup")
          => /\ Len(jobs') = Len(jobs)
             /\ jobs'[j].total = jobs[j].total
             /\ jobs'[j].current = jobs[j].current
             /\ jobs'[j].type = jobs[j].type
             /\ jobs'[j].playlist_id = jobs[j].playlist_id
             /\ jobs'[j].owner = jobs[j].owner
             /\ jobs'[j].status = worker[j].final_status
             /\ \A k \in 1..Len(jobs) : k # j => jobs'[k] = jobs[k]]_vars

\* a job finalised as ERROR after a progress flush: the record still holds
\* the total and current of that flush
C32_Witness ==
    \E j \in JobIds :
        /\ worker[j].pc = "cleanup"
        /\ jobs[j].status = ERROR
        /\ jobs[j].total > 0
        /\ jobs[j].current > 0

\* the threads that own a lock thread t is blocked on: the owner of the
\* live-state lock when t is at the entry of a with block, the thread inside
\* the storage module when t is at the entry of one of its locked functions
BlockedOn(t) ==
    IF StepAt(t).op = "acquire"
    THEN LiveHolders
    ELSE IF StepAt(t).op = "call" /\ thread[t].in_port = "none"
            /\ Locked(StepAt(t).on)
         THEN InPort(StepAt(t).on)
         ELSE {}

\* a set of threads each of which waits for a lock owned inside the set
Deadlocked ==
    \E S \in (SUBSET LockThreads) \ {{}} :
        \A t \in S : BlockedOn(t) # {} /\ BlockedOn(t) \subseteq S

\* C33: no thread is inside a storage port function while it owns the
\* live-state lock, every write of _job_live_state, _ai_usage_live and
\* _cancel_events is made by the owner of the lock, and no set of threads
\* waits in a cycle on the live-state lock and the storage locks
C33_LiveLockNeverNested ==
    /\ \A t \in LockThreads :
           /\ thread[t].in_port # "none" => ~thread[t].holds_live
           /\ StepAt(t).op = "write" => thread[t].holds_live
    /\ Cardinality(LiveHolders) <= 1
    /\ ~Deadlocked

\* a worker is inside update_ai_usage of the jobs module, between the two
\* blocks of _on_progress, while another thread owns the live-state lock
\* and a third waits for the jobs module
C33_Witness ==
    \E t, u, v \in LockThreads :
        /\ thread[t].script = "run_enrichment_job"
        /\ thread[t].pc = Len(PrologueSteps) + 5
        /\ thread[t].in_port = "jobs"
        /\ thread[u].holds_live /\ StepAt(u).op = "write"
        /\ backend = "tinydb"
        /\ BlockedOn(v) = {t}

\* C39, as the specification words it: with the TinyDB backend no thread is
\* inside a function of jobs/storage.py while another is inside a function
\* of songs/storage.py. Each module has a _db_lock of its own, so the
\* terminal update_job of one worker runs while another worker is in
\* save_track on the same file
C39_StorageModulesExclusive ==
    backend = "tinydb" => (InPort("jobs") = {} \/ InPort("songs") = {})

\* C34, as the specification words it: under fair scheduling every job
\* record check_and_create_job has inserted reaches a terminal status.
\* A create request that fails with 401 after the insertion schedules no
\* worker, and the record stays PENDING for good
C34_EveryJobTerminates ==
    \A j \in JobIds :
        (j <= Len(jobs)) ~> (j <= Len(jobs) /\ jobs[j].status \in TERMINAL_STATUSES)

\* the jobs that did get a worker do terminate
ScheduledJobTerminates ==
    \A j \in JobIds :
        (worker[j].pc # "none") ~> (j <= Len(jobs) /\ jobs[j].status \in TERMINAL_STATUSES)

\* C35, as the specification words it: once the stream of a job has sent a
\* terminal status and closed, the persisted record of the job is terminal,
\* so that the job no longer counts as active for its playlist and owner.
\* The worker writes the terminal live snapshot before the terminal
\* update_job, and the stream reads the snapshot in between (shown for an
\* enrichment job)
C35_ObservedTerminalIsPersisted ==
    (/\ stream.pc = "closed"
     /\ stream.last \in TERMINAL_STATUSES
     /\ jobs[stream.job].type = ENRICHMENT)
    => /\ jobs[stream.job].status \in TERMINAL_STATUSES
       /\ stream.job \notin
              ExistingActive(jobs, jobs[stream.job].playlist_id,
                             jobs[stream.job].owner)

\* C36, as the specification words it: once every worker of the owner has
\* finished, the live usage entry equals the persisted record. Shown for
\* runs in which every update_ai_usage succeeded (the record holds the
\* initial unit and every delta): the overwrite of the live entry with the
\* record a worker read earlier can land last
C36_LiveEqualsPersistedAtRest ==
    (/\ \A t \in LiveWorkers : usage_task[t].pc \in {"idle", "done"}
     /\ \E t \in LiveWorkers : usage_task[t].pc = "done"
     /\ ai_usage.tokens = 1 + usage_task[1].prev_tokens + usage_task[2].prev_tokens)
    => /\ ai_usage_live.present
       /\ ai_usage_live.input_tokens = ai_usage.tokens

\* C37, as the specification words it: a request by job id that is answered
\* with the job, its stream, a cancellation or an orphan mark concerns a job
\* of the caller. The three handlers resolve the user and never compare it
\* with the owner of the job
C37_OnlyOwnJobs ==
    (/\ access.op \in {"get_job", "stream_job", "cancel_job"}
     /\ access.answer \in {"200_live", "200_persisted", "200_stream",
                           "200_requested", "200_orphaned"})
    => jobs[access.job].owner = access.caller

\* C38, as the specification words it: the playlist of a caller is marked
\* running, with an active task id, only on account of an active job of the
\* caller. get_all_active_jobs collects the active jobs of every owner and
\* keys them by playlist id alone
C38_RunningMarkIsOwn ==
    (access.op = "get_playlists" /\ access.is_running)
    => /\ jobs[access.job].owner = access.caller
       /\ ExistingActive(jobs, access.playlist, access.caller) # {}

\* the number of times the runs sent video id v to audio_enricher.enrich
TimesEnriched(v) ==
    Cardinality({r \in RunIds : runs[r].video_id = v /\ runs[r].enriched > 0})

\* C40, as the specification words it: with dedup on, the runs of concurrent
\* jobs send a video id to the enricher at most once in total. The check
\* for an existing record and the save of the new one are separate calls,
\* and another run passes the check in between
C40_EnrichedAtMostOnce ==
    \A v \in VideoIds : TimesEnriched(v) <= 1

====
